---- MODULE Spec2Model ----
(***************************************************************************)
(* Temporal Portfolio Ledger of the market time machine (web/src/main.ts,  *)
(* web/src/db.ts): the clock, the ledger (cash, holdings, transaction      *)
(* log), the snapshot history and the handlers that change them.           *)
(*                                                                         *)
(* Representation.                                                         *)
(*   dates     day numbers, 2000-01-01 = 0.  An ISO date string of a four  *)
(*             digit year and its day number order the same way, so the    *)
(*             code's string comparisons are integer comparisons here.     *)
(*   money     integer cents (CASH_STEP = 0.01).                           *)
(*   prices    integer cents per share.                                    *)
(*   shares    integer ticks; TicksPerStep ticks make one SHARE_STEP, so   *)
(*             a quantity that is not a multiple of SHARE_STEP is a tick   *)
(*             count that is not a multiple of TicksPerStep.               *)
(*   avgCost   an exact fraction [n, d] of cents per share, in lowest      *)
(*             terms (d > 0).                                              *)
(*   values    portfolio values are exact: [cents, frac], frac counting    *)
(*             1/TicksPerShare of a cent.                                  *)
(* Arithmetic is exact where the code's is IEEE double, but for the        *)
(* comparison of the cash balance with a cost (CashStepRoundsUp): any      *)
(* other difference in the last bits of a double is outside this model.    *)
(***************************************************************************)
EXTENDS Integers, Sequences, FiniteSets, TLC

\* ------------------------------------------------------------------------
\* Program constants

\* SHARE_STEP = 0.0001: steps per share
StepsPerShare == 10000
\* CASH_STEP = 0.01: cents per dollar
CentsPerDollar == 100
\* resolution of a `shares?: number` argument: ticks per SHARE_STEP
TicksPerStep == 10
TicksPerShare == StepsPerShare * TicksPerStep
\* initDefaults: cash: 10000 (dollars)
StartCashDollars == 10000
StartCash == StartCashDollars * CentsPerDollar

\* ------------------------------------------------------------------------
\* Calendar: JavaScript's UTC date arithmetic on day numbers

FirstYear == 2000
IsLeap(y) == (y % 4 = 0) /\ ((y % 100 # 0) \/ (y % 400 = 0))
\* leap years in 1 .. y
LeapsThrough(y) == (y \div 4) - (y \div 100) + (y \div 400)
\* day number of January 1st of year y
DaysBeforeYear(y) ==
  365 * (y - FirstYear) + LeapsThrough(y - 1) - LeapsThrough(FirstYear - 1)
DaysInMonth(y, m) ==
  IF m = 2 THEN (IF IsLeap(y) THEN 29 ELSE 28)
  ELSE IF m \in {4, 6, 9, 11} THEN 30 ELSE 31
RECURSIVE DaysBeforeMonth(_, _)
DaysBeforeMonth(y, m) ==
  IF m <= 1 THEN 0 ELSE DaysBeforeMonth(y, m - 1) + DaysInMonth(y, m - 1)
\* Date.UTC(y, m - 1, d) for m in 1..12 and any day d >= 0: day overflow
\* runs into the following months, day 0 is the last day of the month before
DateUTC(y, m, d) == DaysBeforeYear(y) + DaysBeforeMonth(y, m) + d - 1
\* Date.UTC with a month index that may exceed 11 (setUTCMonth)
DateUTCMonths(y, m0, d) == DateUTC(y + (m0 \div 12), (m0 % 12) + 1, d)

\* getUTCFullYear(), for the day numbers of 2000 .. 2040
YearOf(n) == LET y0 == FirstYear + (n \div 366)
             IN IF n >= DaysBeforeYear(y0 + 1) THEN y0 + 1 ELSE y0
MonthOf(n) == LET y == YearOf(n)
              IN CHOOSE m \in 1..12 :
                   /\ DateUTC(y, m, 1) <= n
                   /\ n < DateUTC(y, m, 1) + DaysInMonth(y, m)
DayOf(n) == n - DateUTC(YearOf(n), MonthOf(n), 1) + 1
\* getUTCDay(): 0 = Sunday .. 6 = Saturday; 2000-01-01 was a Saturday
getUTCDay(n) == (n + 6) % 7

GAME_START_DATE == DateUTC(2000, 1, 3)
MAX_DATE == DateUTC(2025, 10, 1)

\* clampDate without its comparison
clampDate_identity(n) == n
clampDate(n) == IF n > MAX_DATE THEN MAX_DATE ELSE n
\* isWeekend without the test for Saturday
isWeekend_sunday(n) == getUTCDay(n) = 0
isWeekend(n) == getUTCDay(n) = 0 \/ getUTCDay(n) = 6
\* plusDays that adds no day
plusDays_none(n, days) == clampDate(n)
plusDays(n, days) == clampDate(n + days)
addMonths(n, months) ==
  clampDate(DateUTCMonths(YearOf(n), (MonthOf(n) - 1) + months, DayOf(n)))

\* ------------------------------------------------------------------------
\* Exact arithmetic helpers

\* Math.min taken for its first argument
Min_first(a, b) == a
Min(a, b) == IF a <= b THEN a ELSE b
Abs(a) == IF a < 0 THEN -a ELSE a
RECURSIVE Gcd(_, _)
Gcd(a, b) == IF b = 0 THEN a ELSE Gcd(b, a % b)
\* the fraction n/d (d > 0) in lowest terms, and exact arithmetic on such
\* fractions; common factors are cancelled before anything is multiplied
Frac(n, d) == LET g == Gcd(Abs(n), d) IN [n |-> n \div g, d |-> d \div g]
FracMul(a, b) ==
  LET g1 == Gcd(Abs(a.n), b.d)
      g2 == Gcd(Abs(b.n), a.d)
  IN Frac((a.n \div g1) * (b.n \div g2), (a.d \div g2) * (b.d \div g1))
FracAdd(a, b) ==
  LET g == Gcd(a.d, b.d)
  IN Frac(a.n * (b.d \div g) + b.n * (a.d \div g), (a.d \div g) * b.d)
\* a / b for b > 0
FracDiv(a, b) == FracMul(a, [n |-> b.d, d |-> b.n])
\* a share quantity of so many ticks, in shares
InShares(ticks) == Frac(ticks, TicksPerShare)
\* toFixed of n/d (d > 0): nearest integer, a tie goes away from zero
RoundAway(n, d) == IF n >= 0 THEN (2 * n + d) \div (2 * d)
                   ELSE -((2 * (-n) + d) \div (2 * d))
\* ticks * price / TicksPerShare split into whole cents and the rest, without
\* forming the product of the whole quantity and the price
WholeCents(ticks, price) ==
  (ticks \div TicksPerShare) * price + ((ticks % TicksPerShare) * price) \div TicksPerShare
FracCents(ticks, price) == ((ticks % TicksPerShare) * price) % TicksPerShare
\* the price of one share, whatever the quantity
RoundCash_oneShare(ticks, price) == price
\* Math.round(qty * price / CASH_STEP) * CASH_STEP, in cents
RoundCash(ticks, price) ==
  WholeCents(ticks, price) + (IF 2 * FracCents(ticks, price) >= TicksPerShare THEN 1 ELSE 0)
\* Math.floor((cash / price) / SHARE_STEP) * SHARE_STEP, in ticks: the floor of
\* the exact quotient.  The budgets and prices of the model are ones for which
\* the double quotient has the same floor.
BudgetTicks(cents, price) ==
  ( (cents \div price) * StepsPerShare
    + ((cents % price) * StepsPerShare) \div price ) * TicksPerStep
\* +(x).toFixed(4) of a share quantity
toFixed4(ticks) == RoundAway(ticks, TicksPerStep) * TicksPerStep

\* ------------------------------------------------------------------------
\* Instruments and the price index

\* candidate?.price of an empty candidate: undefined
undefined == -1
\* CRYPTO: symbol -> invention date
CRYPTO == [s \in {"BTC-USD", "ETH-USD"} |->
             IF s = "BTC-USD" THEN DateUTC(2009, 1, 3) ELSE DateUTC(2015, 7, 30)]
\* the instruments traded in the model: an equity, a cryptocurrency and a
\* symbol the price source has no data for
Symbols == {"X", "BTC-USD", "ZZZ"}
\* the symbols with a series, in the order of the keys of the holdings store;
\* the series of ETH-USD begins before its invention date
SymbolSeq == <<"BTC-USD", "ETH-USD", "X", "ZZZ">>
\* priceCache once loaded: the series of each symbol, ascending by date
priceCache(symbol) ==
  IF symbol = "X" THEN
    << [date |-> DateUTC(2000, 1, 3), price |-> 10000],
       [date |-> DateUTC(2000, 1, 10), price |-> 12000] >>
  ELSE IF symbol = "BTC-USD" THEN
    << [date |-> DateUTC(2009, 1, 3), price |-> 4000],
       [date |-> DateUTC(2015, 7, 30), price |-> 15000] >>
  ELSE IF symbol = "ETH-USD" THEN
    << [date |-> DateUTC(2015, 7, 1), price |-> 5000] >>
  ELSE << >>

\* the binary search of getPriceAtOrBefore: the index of the candidate, 0 for none
RECURSIVE searchAtOrBefore(_, _, _, _, _)
searchAtOrBefore(series, dateStr, left, right, candidate) ==
  IF left > right THEN candidate
  ELSE LET mid == (left + right) \div 2
       IN IF series[mid].date <= dateStr
          THEN searchAtOrBefore(series, dateStr, mid + 1, right, mid)
          ELSE searchAtOrBefore(series, dateStr, left, mid - 1, candidate)
\* the points of series strictly before dateStr in place of those at or before it
priceInSeries_strict(series, dateStr) ==
  LET idx == searchAtOrBefore(series, dateStr - 1, 1, Len(series), 0)
  IN IF idx = 0 THEN undefined ELSE series[idx].price
priceInSeries(series, dateStr) ==
  LET idx == searchAtOrBefore(series, dateStr, 1, Len(series), 0)
  IN IF idx = 0 THEN undefined ELSE series[idx].price
getPriceAtOrBefore(symbol, dateStr) == priceInSeries(priceCache(symbol), dateStr)

\* the loop of getPrevTradingPrice from entry j down: the price of the first
\* entry dated before the reference, within maxLookbackDays entries of idx
RECURSIVE prevScan(_, _, _, _)
prevScan(series, idx, j, maxLookbackDays) ==
  IF ~(j >= 1 /\ idx - j <= maxLookbackDays) THEN undefined
  ELSE IF series[j].date < series[idx].date THEN series[j].price
  ELSE prevScan(series, idx, j - 1, maxLookbackDays)
\* the entry before the reference, whatever its date
prevInSeries_adjacent(series, dateStr, maxLookbackDays) ==
  LET idx == searchAtOrBefore(series, dateStr, 1, Len(series), 0)
  IN IF idx <= 1 \/ maxLookbackDays < 1 THEN undefined ELSE series[idx - 1].price
prevInSeries(series, dateStr, maxLookbackDays) ==
  LET idx == searchAtOrBefore(series, dateStr, 1, Len(series), 0)
  IN IF idx <= 1 THEN undefined
     ELSE prevScan(series, idx, idx - 1, maxLookbackDays)
getPrevTradingPrice(symbol, dateStr, maxLookbackDays) ==
  prevInSeries(priceCache(symbol), dateStr, maxLookbackDays)

isCrypto(symbol) == symbol \in DOMAIN CRYPTO
\* every cryptocurrency tradable from the first day
cryptoAvailable_always(symbol, date) == TRUE
cryptoAvailable(symbol, date) ==
  IF ~isCrypto(symbol) THEN TRUE ELSE date >= CRYPTO[symbol]

\* ------------------------------------------------------------------------
\* The store (IndexedDB 'time-machine'): db.system is the 'system' record,
\* db.history the 'history' entry of the system store, db.holdings the
\* holdings store keyed by symbol, db.transactions the auto-increment log

\* initDefaults on an empty store
initDefaults ==
  [ system |-> [currentDate |-> GAME_START_DATE, timeOfDay |-> "open", cash |-> StartCash],
    history |-> << [date |-> GAME_START_DATE, time |-> "open",
                    value |-> [cents |-> StartCash, frac |-> 0]] >>,
    holdings |-> << >>,
    transactions |-> << >> ]

Held(d, symbol) == symbol \in DOMAIN d.holdings
putHolding(holdings, h) ==
  [s \in (DOMAIN holdings) \cup {h.symbol} |-> IF s = h.symbol THEN h ELSE holdings[s]]
delHolding(holdings, symbol) ==
  [s \in (DOMAIN holdings) \ {symbol} |-> holdings[s]]

\* appendPortfolioHistory (db.ts): one read-modify-write of the history entry
appendPortfolioHistory(history, entry) ==
  LET h0 == IF Len(history) = 0
            THEN << [date |-> GAME_START_DATE, time |-> "open", value |-> entry.value] >>
            ELSE history
      last == h0[Len(h0)]
  IN IF last.date = entry.date /\ last.time = entry.time
     THEN [h0 EXCEPT ![Len(h0)] = entry]
     ELSE Append(h0, entry)

\* renderHoldings: the sum of shares * price over the holdings with a price,
\* in units of 1/TicksPerShare cent, as whole cents and the rest
RECURSIVE holdingsValue(_, _, _)
holdingsValue(holdings, date, i) ==
  IF i > Len(SymbolSeq) THEN [cents |-> 0, frac |-> 0]
  ELSE LET rest == holdingsValue(holdings, date, i + 1)
           sym == SymbolSeq[i]
           price == getPriceAtOrBefore(sym, date)
       IN IF sym \notin DOMAIN holdings \/ price = undefined THEN rest
          ELSE LET f == rest.frac + FracCents(holdings[sym].shares, price)
               IN [cents |-> rest.cents + WholeCents(holdings[sym].shares, price)
                               + (f \div TicksPerShare),
                   frac |-> f % TicksPerShare]
\* the snapshot value without the holdings
portfolioValue_cash(d, s) == [cents |-> s.cash, frac |-> 0]
\* pv = sys.cash + holdingsValue
portfolioValue(d, s) ==
  LET hv == holdingsValue(d.holdings, s.currentDate, 1)
  IN [cents |-> s.cash + hv.cents, frac |-> hv.frac]

\* refresh run to completion with no other handler in flight: it hides the
\* jump message and records the snapshot of the state it read
refresh(d) ==
  LET s == d.system
  IN [d EXCEPT !.history =
        appendPortfolioHistory(@, [date |-> s.currentDate, time |-> s.timeOfDay,
                                   value |-> portfolioValue(d, s)])]

\* what a handler leaves behind: the store and the jump message on display at
\* its end ("hidden", "max" for the end-of-data message, "back" for the
\* backwards-in-time message); and, for the reader of the model, the branch it
\* took (outcome) and the message it put on display itself before any refresh
\* (shown, "none" when it displayed nothing).  Every handler returns undefined.
Done(d, msg, outcome, shown) ==
  [db |-> d, jumpError |-> msg, outcome |-> outcome, shown |-> shown]

\* ------------------------------------------------------------------------
\* Ledger: buy and sell

\* let qty = shares ?? (cash ? Math.floor((cash / price) / SHARE_STEP) * SHARE_STEP : 0)
resolveQty(arg, price) ==
  IF arg.kind = "shares" THEN arg.v
  ELSE IF arg.v # 0 THEN BudgetTicks(arg.v, price) ELSE 0

\* the average spread over the shares held before the buy
newAvgCost_overOld(existing, cost, newShares) ==
  FracDiv(FracAdd(FracMul(existing.avgCost, InShares(existing.shares)), Frac(cost, 1)),
          InShares(existing.shares))
\* ((existing.avgCost * existing.shares) + cost) / newShares, in cents per share
newAvgCost(existing, cost, newShares) ==
  FracDiv(FracAdd(FracMul(existing.avgCost, InShares(existing.shares)), Frac(cost, 1)),
          InShares(newShares))

\* (await db.get('holdings', symbol)) || { symbol, shares: 0, avgCost: 0 }
getHolding(holdings, symbol) ==
  IF symbol \in DOMAIN holdings THEN holdings[symbol]
  ELSE [symbol |-> symbol, shares |-> 0, avgCost |-> [n |-> 0, d |-> 1]]

\* the holding buy writes, from the holding it read
buyHolding(existing, symbol, qty, price, cost) ==
  LET newShares == existing.shares + qty
      newAvg == IF existing.shares > 0 THEN newAvgCost(existing, cost, newShares)
                ELSE [n |-> price, d |-> 1]
  IN [symbol |-> symbol, shares |-> newShares, avgCost |-> newAvg]

\* The double n * CASH_STEP against the double nearest n/100 (what
\* +(x).toFixed(2) yields for n cents).  CASH_STEP, the double nearest 0.01,
\* is m / 2^59 with 100 * m = 2^59 + 12, so the product is n/100 plus
\* 12 * n / (100 * 2^59) before it is rounded to 53 bits.
\* UlpScale: the power of two P with 100 * P <= 128 * n < 200 * P; the doubles
\* around n/100 are P / 2^59 apart
RECURSIVE UlpScale(_, _)
UlpScale(n, P) == IF 200 * P <= 128 * n THEN UlpScale(n, 2 * P) ELSE P
RECURSIVE Log2(_)
Log2(P) == IF P <= 1 THEN 0 ELSE 1 + Log2(P \div 2)
\* 2^k modulo q
RECURSIVE Pow2Mod(_, _)
Pow2Mod(k, q) == IF k = 0 THEN 1 % q ELSE (2 * Pow2Mod(k - 1, q)) % q
\* n * CASH_STEP > the double nearest n/100: n/100 rounds down to its double
\* and the product, 12 * n / P hundredths of a spacing above n/100, rounds up
\* (a tie goes to the even mantissa)
CashStepRoundsUp(n) ==
  /\ n > 0
  /\ LET P == UlpScale(n, 1)
         G == ((n % 200) * Pow2Mod(59 - Log2(P), 200)) % 200
         F == G % 100
         odd == G >= 100
         above == P * F + 12 * n
     IN /\ F < 50 \/ (F = 50 /\ ~odd)
        /\ above > 50 * P \/ (above = 50 * P /\ odd)
\* buy without the test of the cash balance
insufficientCash_never(cash, cost) == FALSE
\* sys.cash < cost, cost being the double Math.round(...) * CASH_STEP and
\* sys.cash the double of a two-decimal numeral
insufficientCash(cash, cost) == cash < cost \/ (cash = cost /\ CashStepRoundsUp(cost))

\* { date, time, type: 'BUY', symbol, shares: qty, price, total: cost }
buyTx(sys, symbol, qty, price, cost) ==
  [date |-> sys.currentDate, time |-> sys.timeOfDay, type |-> "BUY",
   symbol |-> symbol, shares |-> qty, price |-> price, total |-> cost]

buy(d, msg, symbol, arg) ==
  LET sys == d.system
      date == sys.currentDate
      price == getPriceAtOrBefore(symbol, date)
      qty == resolveQty(arg, price)
      cost == RoundCash(qty, price)
  IN IF ~isCrypto(symbol) /\ isWeekend(date) THEN Done(d, msg, "InstrumentUnavailable", "none")
     ELSE IF isCrypto(symbol) /\ ~cryptoAvailable(symbol, date)
       THEN Done(d, msg, "InstrumentUnavailable", "none")
     ELSE IF price = undefined THEN Done(d, msg, "PriceUnavailable", "none")
     ELSE IF qty <= 0 THEN Done(d, msg, "InvalidQuantity", "none")
     ELSE IF insufficientCash(sys.cash, cost) THEN Done(d, msg, "InsufficientFunds", "none")
     ELSE LET existing == getHolding(d.holdings, symbol)
              d1 == [d EXCEPT !.holdings =
                       putHolding(@, buyHolding(existing, symbol, qty, price, cost))]
              d2 == [d1 EXCEPT !.system = [sys EXCEPT !.cash = sys.cash - cost]]
              d3 == [d2 EXCEPT !.transactions = Append(@, buyTx(sys, symbol, qty, price, cost))]
          IN Done(refresh(d3), "hidden", "ok", "none")

\* the proceeds recorded as the profit, the cost of the shares sold ignored
profitLoss_gross(proceeds, avgCost, qty) == proceeds
\* +(proceeds - existing.avgCost * qty).toFixed(2), in cents
\* (toFixed rounds to the nearest cent, a tie away from zero)
profitLoss(proceeds, avgCost, qty) ==
  LET costBasis == FracMul(avgCost, InShares(qty))
      w == costBasis.n \div costBasis.d
      r == costBasis.n % costBasis.d
      k == proceeds - w
  IN IF 2 * r > costBasis.d THEN k - 1
     ELSE IF 2 * r = costBasis.d THEN (IF k >= 1 THEN k ELSE k - 1)
     ELSE k

\* sell's write without the deletion of a holding sold out
sellHoldings_keep(holdings, existing, symbol, qty) ==
  putHolding(holdings, [symbol |-> symbol, shares |-> toFixed4(existing.shares - qty),
                        avgCost |-> existing.avgCost])
\* the holdings store after sell's write: the holding is deleted when the
\* remaining quantity rounds to zero
sellHoldings(holdings, existing, symbol, qty) ==
  LET remaining == toFixed4(existing.shares - qty)
  IN IF remaining <= 0 THEN delHolding(holdings, symbol)
     ELSE putHolding(holdings, [symbol |-> symbol, shares |-> remaining,
                                avgCost |-> existing.avgCost])

\* { date, time, type: 'SELL', symbol, shares: qty, price, total: proceeds, profit_loss }
sellTx(sys, symbol, qty, price, proceeds, existing) ==
  [date |-> sys.currentDate, time |-> sys.timeOfDay, type |-> "SELL",
   symbol |-> symbol, shares |-> qty, price |-> price, total |-> proceeds,
   profit_loss |-> profitLoss(proceeds, existing.avgCost, qty)]

sell(d, msg, symbol, arg) ==
  LET sys == d.system
      date == sys.currentDate
      price == getPriceAtOrBefore(symbol, date)
  IN IF ~isCrypto(symbol) /\ isWeekend(date) THEN Done(d, msg, "InstrumentUnavailable", "none")
     ELSE IF price = undefined THEN Done(d, msg, "PriceUnavailable", "none")
     ELSE IF ~Held(d, symbol) \/ d.holdings[symbol].shares <= 0
       THEN Done(d, msg, "NoHolding", "none")
     ELSE LET existing == d.holdings[symbol]
              qty == Min(resolveQty(arg, price), existing.shares)
              proceeds == RoundCash(qty, price)
          IN IF qty <= 0 THEN Done(d, msg, "InvalidQuantity", "none")
             ELSE LET d1 == [d EXCEPT !.holdings = sellHoldings(d.holdings, existing, symbol, qty)]
                      d2 == [d1 EXCEPT !.system = [sys EXCEPT !.cash = sys.cash + proceeds]]
                      d3 == [d2 EXCEPT !.transactions =
                               Append(@, sellTx(sys, symbol, qty, price, proceeds, existing))]
                  IN Done(refresh(d3), "hidden", "ok", "none")

\* ------------------------------------------------------------------------
\* The reconstructor of the monthly history (computeFilledMonthlyHistory)

\* dateStr.slice(0, 7), "YYYY-MM", as the number of the month since year 0:
\* the strings and the numbers order the same way
toMonthKey(n) == YearOf(n) * 12 + (MonthOf(n) - 1)
\* the key of month m of year y
stepKeyOf(y, m) == y * 12 + (m - 1)
\* Date.UTC(year, month1to12, 0): the last day of the month
monthEndDateStr(year, month1to12) == DateUTCMonths(year, month1to12, 0)
\* incMonth without the carry into the next year
incMonth_noCarry(year, month1to12) ==
  IF month1to12 + 1 > 12 THEN <<year, 1>> ELSE <<year, month1to12 + 1>>
incMonth(year, month1to12) ==
  IF month1to12 + 1 > 12 THEN <<year + 1, 1>> ELSE <<year, month1to12 + 1>>

\* a.time.localeCompare(b.time): "close" sorts before "open"
localeCompare(a, b) == IF a = b THEN 0 ELSE IF a = "close" THEN -1 ELSE 1
\* the comparator of both sorts is positive: a goes after b
sortsAfter(a, b) ==
  IF a.date = b.date THEN localeCompare(a.time, b.time) > 0 ELSE a.date > b.date
\* Array.prototype.sort with that comparator; the sort is stable
RECURSIVE insertSorted(_, _)
insertSorted(sorted, x) ==
  IF sorted = << >> THEN << x >>
  ELSE IF sortsAfter(Head(sorted), x) THEN << x >> \o sorted
  ELSE << Head(sorted) >> \o insertSorted(Tail(sorted), x)
RECURSIVE sortByDateTime(_)
sortByDateTime(seq) ==
  IF seq = << >> THEN << >>
  ELSE insertSorted(sortByDateTime(SubSeq(seq, 1, Len(seq) - 1)), seq[Len(seq)])

\* perMonth.get(key) after the first i entries: of the entries of the month,
\* the first one of the latest date; NoPoint for none
NoPoint == [date |-> -1, value |-> [cents |-> 0, frac |-> 0]]
RECURSIVE perMonthGet(_, _, _, _)
perMonthGet(entries, keys, key, i) ==
  IF i = 0 THEN NoPoint
  ELSE LET existing == perMonthGet(entries, keys, key, i - 1)
           e == entries[i]
       IN IF keys[i] = key /\ (existing = NoPoint \/ e.date > existing.date)
          THEN [date |-> e.date, value |-> e.value]
          ELSE existing

\* a field of a transaction that holds no number
NaN == -7
\* Number(x) || 0
numberOr0(x) == IF x = NaN THEN 0 ELSE x
\* the date field of a transaction without one: undefined <= useDate is
\* false for every useDate, and x.localeCompare(undefined) compares x with
\* 'undefined', which sorts after every date
NoDate == MAX_DATE + 1
\* the comparator of the sort called with a and b: a.date.localeCompare
\* throws a TypeError when a has no date and b has one
compareThrows(a, b) == a.date = NoDate /\ b.date # NoDate

\* the replay loop: the transactions from idx on with date <= useDate applied
\* to the share counts and the cash of acc
RECURSIVE replay(_, _, _)
replay(txs, useDate, acc) ==
  IF ~(acc.idx <= Len(txs) /\ txs[acc.idx].date <= useDate) THEN acc
  ELSE LET t == txs[acc.idx]
           qty == numberOr0(t.shares)
           total == numberOr0(t.total)
           had == IF t.symbol \in DOMAIN acc.shares THEN acc.shares[t.symbol] ELSE 0
           now == IF t.type = "BUY" THEN toFixed4(had + qty)
                  ELSE IF t.type = "SELL"
                    THEN (IF toFixed4(had - qty) > 0 THEN toFixed4(had - qty) ELSE 0)
                  ELSE had
           \* +(cash -+ total).toFixed(2)
           sum == IF t.type = "BUY" THEN acc.cash.cents - total
                  ELSE IF t.type = "SELL" THEN acc.cash.cents + total
                  ELSE acc.cash.cents
           cash == IF t.type \in {"BUY", "SELL"}
                   THEN [cents |-> sum + (IF 2 * acc.cash.frac >= TicksPerShare THEN 1 ELSE 0),
                         frac |-> 0]
                   ELSE acc.cash
       IN replay(txs, useDate,
                 [idx |-> acc.idx + 1,
                  shares |-> [s \in (DOMAIN acc.shares) \cup {t.symbol} |->
                                IF s = t.symbol THEN now ELSE acc.shares[s]],
                  cash |-> cash])

\* the cash of the replay, the shares left out
filledValue_cash(acc, useDate) == acc.cash
\* +(cash + hv).toFixed(2) at useDate
filledValue(acc, useDate) ==
  LET hv == holdingsValue([s \in DOMAIN acc.shares |-> [shares |-> acc.shares[s]]], useDate, 1)
      f == acc.cash.frac + hv.frac
      cents == acc.cash.cents + hv.cents + (f \div TicksPerShare)
  IN [cents |-> cents + (IF 2 * (f % TicksPerShare) >= TicksPerShare THEN 1 ELSE 0),
      frac |-> 0]

\* the cash the replay starts from: the value of the earliest entry
initialCashOf(entries) ==
  IF Len(entries) = 0 THEN [cents |-> StartCash, frac |-> 0]
  ELSE sortByDateTime(entries)[1].value

\* One step of the while loop over the months: the step of stepKey, whose
\* (y, m) incMonth made of the month before (the first step has those of
\* startKey).  The transactions are sorted by date and useDate grows from step
\* to step, so what the loop has replayed when it reaches a step is the replay
\* from the first transaction up to the step's useDate.
monthStep(entries, keys, txs, currentDate, endKey, initialCash, startKey, stepKey) ==
  LET before == stepKey - 1
      ym == IF stepKey = startKey THEN <<stepKey \div 12, (stepKey % 12) + 1>>
            ELSE incMonth(before \div 12, (before % 12) + 1)
      monthEnd == monthEndDateStr(ym[1], ym[2])
      useDate == IF stepKeyOf(ym[1], ym[2]) = endKey /\ monthEnd > currentDate
                 THEN currentDate ELSE monthEnd
      existing == perMonthGet(entries, keys, stepKeyOf(ym[1], ym[2]), Len(entries))
  IN IF existing # NoPoint THEN existing
     ELSE [date |-> useDate,
           value |-> filledValue(
                       replay(txs, useDate, [idx |-> 1, shares |-> << >>, cash |-> initialCash]),
                       useDate)]
\* the points the loop pushes for the steps lo .. hi, in the order of the
\* steps; the range is halved so that the evaluation does not nest one level
\* for each month
RECURSIVE monthSteps(_, _, _, _, _, _, _, _, _)
monthSteps(entries, keys, txs, currentDate, endKey, initialCash, startKey, lo, hi) ==
  IF lo > hi THEN << >>
  ELSE IF lo = hi
    THEN << monthStep(entries, keys, txs, currentDate, endKey, initialCash, startKey, lo) >>
  ELSE LET mid == (lo + hi) \div 2
       IN monthSteps(entries, keys, txs, currentDate, endKey, initialCash, startKey, lo, mid)
            \o monthSteps(entries, keys, txs, currentDate, endKey, initialCash, startKey,
                          mid + 1, hi)

\* out.sort((a, b) => a.date.localeCompare(b.date)): the sort is stable, so it
\* leaves a sequence that ascends already as it is, and puts an element of
\* any other behind those of an earlier date and those of its date that came
\* before it
sortByDate(seq) ==
  IF \A i \in 1..(Len(seq) - 1) : seq[i].date <= seq[i + 1].date THEN seq
  ELSE LET rank(i) == Cardinality({ j \in 1..Len(seq) :
                                      \/ seq[j].date < seq[i].date
                                      \/ seq[j].date = seq[i].date /\ j <= i })
       IN [p \in 1..Len(seq) |-> seq[CHOOSE i \in 1..Len(seq) : rank(i) = p]]

\* the month the reconstruction starts at: the earliest month recorded, the
\* month of GAME_START_DATE without a record
RECURSIVE minKey(_, _)
minKey(keys, i) ==
  IF i = 1 THEN keys[1]
  ELSE LET rest == minKey(keys, i - 1) IN IF keys[i] < rest THEN keys[i] ELSE rest
computeFilledMonthlyHistory(entries, currentDate, transactions) ==
  LET keys == [i \in 1..Len(entries) |-> toMonthKey(entries[i].date)]
      txs == sortByDateTime(transactions)
      startKey == IF Len(entries) > 0 THEN minKey(keys, Len(keys))
                  ELSE toMonthKey(GAME_START_DATE)
      endKey == toMonthKey(currentDate)
      initialCash == initialCashOf(entries)
  IN sortByDate(monthSteps(entries, keys, txs, currentDate, endKey, initialCash,
                           startKey, startKey, endKey))
\* the share counts and the cash of the replay loop when the loop is over: the
\* step of the last month replays the transactions up to currentDate
replayed(entries, currentDate, transactions) ==
  replay(sortByDateTime(transactions), currentDate,
         [idx |-> 1, shares |-> << >>, cash |-> initialCashOf(entries)])

\* ------------------------------------------------------------------------
\* Clock: the navigation handlers

\* the clock written into a system record made anew, the cash balance that of
\* a new game
setClock_fresh(d, date, time) ==
  [d EXCEPT !.system = [currentDate |-> date, timeOfDay |-> time, cash |-> StartCash]]
setClock(d, date, time) ==
  [d EXCEPT !.system = [@ EXCEPT !.currentDate = date, !.timeOfDay = time]]

\* the body shared by jumpWeek, jumpMonth and jumpYear
jumpTo(d, nextDate) ==
  LET s == d.system
  IN IF s.currentDate = MAX_DATE THEN Done(d, "max", "HorizonReached", "max")
     ELSE Done(refresh(setClock(d, nextDate, "open")), "hidden", "ok",
               IF nextDate = MAX_DATE /\ nextDate # s.currentDate THEN "max" ELSE "none")
jumpWeek(d) == jumpTo(d, plusDays(d.system.currentDate, 7))
jumpMonth(d) == jumpTo(d, addMonths(d.system.currentDate, 1))
jumpYear(d) == jumpTo(d, addMonths(d.system.currentDate, 12))

\* nextBtn that takes MAX_DATE for the end of the data in either phase
nextBtn_heldAtMax(d) ==
  LET s == d.system
      nextDate == plusDays(s.currentDate, 1)
  IN IF s.currentDate = MAX_DATE
       THEN Done(d, "max", "HorizonReached", "max")
     ELSE IF s.timeOfDay = "open"
       THEN Done(refresh(setClock(d, s.currentDate, "close")), "hidden", "ok", "none")
     ELSE Done(refresh(setClock(d, nextDate, "open")), "hidden", "ok",
               IF nextDate = MAX_DATE /\ nextDate # s.currentDate THEN "max" ELSE "none")
nextBtn(d) ==
  LET s == d.system
      nextDate == plusDays(s.currentDate, 1)
  IN IF s.currentDate = MAX_DATE /\ s.timeOfDay = "close"
       THEN Done(d, "max", "HorizonReached", "max")
     ELSE IF s.timeOfDay = "open"
       THEN Done(refresh(setClock(d, s.currentDate, "close")), "hidden", "ok", "none")
     ELSE Done(refresh(setClock(d, nextDate, "open")), "hidden", "ok",
               IF nextDate = MAX_DATE /\ nextDate # s.currentDate THEN "max" ELSE "none")

\* const days = dow === 6 ? 2 : (dow === 0 ? 1 : (6 - dow))
skipDays(dow) == IF dow = 6 THEN 2 ELSE IF dow = 0 THEN 1 ELSE 6 - dow
skipWeekend(d) ==
  LET s == d.system
      nextDate == plusDays(s.currentDate, skipDays(getUTCDay(s.currentDate)))
  IN IF s.currentDate = MAX_DATE /\ isWeekend(s.currentDate)
       THEN Done(d, "max", "HorizonReached", "max")
     ELSE Done(refresh(setClock(d, nextDate, "open")), "hidden", "ok",
               IF nextDate = MAX_DATE /\ nextDate # s.currentDate THEN "max" ELSE "none")

\* the jump form without its test
isBackward_never(iso, currentDate) == FALSE
\* if (iso < s.currentDate): the explicit jump is refused
isBackward(iso, currentDate) == iso < currentDate

\* the jump form submitted with year y, month m (1..12) and day dd (1..31)
jumpForm(d, y, m, dd) ==
  LET rawIso == DateUTC(y, m, dd)
      iso == clampDate(rawIso)
      s == d.system
  IN IF isBackward(iso, s.currentDate) THEN Done(d, "back", "BackwardJump", "back")
     ELSE Done(refresh(setClock(d, iso, "open")), "hidden", "ok",
               IF iso = MAX_DATE /\ rawIso > MAX_DATE THEN "max" ELSE "none")

\* the reset that leaves the transactions store as it is
resetBtn_keepLog(d) ==
  Done(refresh([initDefaults EXCEPT !.transactions = d.transactions]), "hidden", "ok", "none")
\* the reset button: the three stores cleared, the defaults written, a refresh
resetBtn(d) == Done(refresh(initDefaults), "hidden", "ok", "none")

\* ------------------------------------------------------------------------
\* Bounds and inputs of the model

\* Spec: the longest transaction log and the longest snapshot history explored
MaxTx == 1
MaxHist == 2
\* SpecLedger: the longest transaction log and snapshot history explored
MaxLedgerTx == 3
MaxLedgerHist == 2
\* SpecClock: the longest snapshot history explored
MaxClockHist == 4
\* SpecConc: the number of handler calls explored
MaxConcOps == 3
\* SpecLoad: the loads of one symbol in flight together
MaxLoads == 2
\* SpecLookup: the longest series, the latest date of a point and the
\* lookback bounds explored
MaxSeriesLen == 4
MaxSeriesDate == 4
LookbackDays == {0, 1, 2, 10}
\* SpecCorrupt: the longest transaction log read from the store
MaxCorruptTx == 2
\* SpecFill: the longest transaction log and snapshot history explored
MaxFillTx == 2
MaxFillHist == 3
\* SpecScenario: the longest transaction log and snapshot history explored
MaxScenarioTx == 2
MaxScenarioHist == 4
\* SpecAvail: the longest transaction log and snapshot history explored
MaxAvailTx == 1
MaxAvailHist == 3
\* SpecBudget: the longest transaction log and snapshot history explored
MaxBudgetTx == 2
MaxBudgetHist == 4
\* SpecReplay: the longest transaction log and snapshot history explored
MaxReplayTx == 2
MaxReplayHist == 3

Shares(v) == [kind |-> "shares", v |-> v]
Budget(v) == [kind |-> "cash", v |-> v]
\* buy(symbol, shares, undefined) and buy(symbol, undefined, cash): nothing,
\* less than one SHARE_STEP, one SHARE_STEP, more than the cash can pay;
\* a budget of one dollar.  sell: one SHARE_STEP, more than is held, a budget
\* of fifty cents
BuyArgs == {Shares(0), Shares(3), Shares(TicksPerStep), Shares(1000 * TicksPerShare),
            Budget(100)}
SellArgs == {Shares(TicksPerStep), Shares(1000 * TicksPerShare), Budget(50)}
\* the same with the sale of nothing
StepSellArgs == SellArgs \cup {Shares(0)}
\* the same without the quantity below one SHARE_STEP: the exact averages of
\* such quantities outgrow the integers within three trades
StepBuyArgs == BuyArgs \ {Shares(3)}
\* buy(symbol, undefined, cash) of the buy-with-cash form: a budget of 1.20
BudgetArgs == {Budget(120)}
\* the jump form's selections besides the date on display (the form's
\* default): a day before the start, a Saturday in between, a day past the
\* end of the data; and with the day before the end of the data
JumpInputs == { <<2000, 1, 1>>, <<2009, 1, 3>>, <<2025, 12, 31>> }
ClockJumpInputs == JumpInputs \cup { <<2025, 9, 30>> }
\* SpecAvail: the symbols bought, a tenth of a share at a time, and the dates
\* jumped to: the Saturday of the invention of BTC-USD, a Saturday before the
\* invention of ETH-USD and one after it
AvailSymbols == {"X", "BTC-USD", "ETH-USD"}
\* SpecFill: a ten-thousandth of a share bought and sold
FillArgs == {Shares(TicksPerStep)}
\* SpecScenario: ten shares bought and sold
ScenarioArgs == {Shares(10 * TicksPerShare)}
AvailArgs == {Shares(1000 * TicksPerStep)}
AvailJumpInputs == { <<2009, 1, 3>>, <<2015, 7, 4>>, <<2015, 8, 1>> }
NavOps == {"nextBtn", "jumpWeek", "jumpMonth", "jumpYear", "skipWeekend", "jumpForm"}
TradeOps == {"buy", "sell"}

\* the handlers that can be in flight together
Slots == {1, 2}
\* a slot with no handler in flight
Idle ==
  [ op |-> "idle", symbol |-> "", arg |-> Shares(0), pc |-> "idle",
    sys |-> initDefaults.system, existing |-> getHolding(<< >>, ""),
    holdings |-> << >> ]

\* db, jumpError: the store and the jump message on display
\* lastOp: the handler that ran last from call to return, and how it ended
\* procs: the handlers in flight, each suspended at an await: its call (op,
\*   symbol, arg), the await it is suspended at (pc) and its local variables
\*   (sys; existing; refresh's holdings)
\* refreshGeneration: compared only for equality with the generation a
\*   refresh took at its call, it is kept as the slot of the handler whose
\*   refresh took the latest generation (0: a refresh that has returned)
\* conc: the bookkeeping of overlapping handlers: the store when a handler
\*   was last called with none in flight (base), the calls made since then
\*   (ops), whether handlers in flight were dropped by an unload (unloaded),
\*   and the number of calls so far (started)
VARIABLES db, jumpError, lastOp, procs, refreshGeneration, conc, els, loader,
          lookup, rebuilt
vars == <<db, jumpError, lastOp, procs, refreshGeneration, conc, els, loader,
          lookup, rebuilt>>

\* loader: the state of loadPriceSeries.  priceCache and priceFetches are the
\* keys of the two maps, prices the symbols with a series in the 'prices'
\* store, bodies the loads of each symbol in flight, counted by the await
\* they are suspended at, cached the symbols whose series priceCache has held
noBodies == [getPrices |-> 0, fetchHistory |-> 0, putPrices |-> 0]
noneLoaded ==
  [priceCache |-> {}, priceFetches |-> {}, prices |-> {}, cached |-> {},
   bodies |-> [s \in Symbols |-> noBodies]]

\* rebuilt: a call of computeFilledMonthlyHistory on a snapshot history and
\* a transaction log read from the store: the points it returned, whether it
\* threw, and the entries it reported, which the code has no statement for
NotRebuilt ==
  [entries |-> << >>, currentDate |-> GAME_START_DATE, transactions |-> << >>,
   called |-> FALSE, threw |-> FALSE, out |-> << >>, flagged |-> {}]

\* lookup: a call of getPriceAtOrBefore and of getPrevTradingPrice on a series,
\* with what each returned; notCalled before the call
notCalled == -2
NoLookup ==
  [series |-> << >>, dateStr |-> 0, maxLookbackDays |-> 0,
   price |-> notCalled, prev |-> notCalled]
\* the elements of the page that refresh writes last, each with the standing
\* of the refresh that wrote it: its generation was the latest one when it
\* wrote, or a later call of refresh had superseded it
rendered == [txBody |-> "latest", chart |-> "latest"]
written(i) == IF refreshGeneration = i THEN "latest" ELSE "superseded"

Init == /\ db = initDefaults
        /\ jumpError = "hidden"
        /\ lastOp = [op |-> "main", outcome |-> "ok", shown |-> "none"]
        /\ procs = [i \in Slots |-> Idle]
        /\ refreshGeneration = 0
        /\ conc = [base |-> initDefaults, ops |-> << >>, unloaded |-> FALSE, started |-> 0,
                   mixed |-> [i \in Slots |-> FALSE]]
        /\ els = rendered
        /\ loader = noneLoaded
        /\ lookup = NoLookup
        /\ rebuilt = NotRebuilt

\* a handler run from its call to its return with no other handler in flight;
\* its refresh holds the latest generation wherever it writes, as the one
\* of main did
Run(op, r) ==
  /\ db' = r.db
  /\ jumpError' = r.jumpError
  /\ lastOp' = [op |-> op, outcome |-> r.outcome, shown |-> r.shown]
  /\ UNCHANGED <<procs, refreshGeneration, conc, els, loader, lookup, rebuilt>>

Buy(symbol, arg) == Run("buy", buy(db, jumpError, symbol, arg))
Sell(symbol, arg) == Run("sell", sell(db, jumpError, symbol, arg))
NextBtn == Run("nextBtn", nextBtn(db))
JumpWeek == Run("jumpWeek", jumpWeek(db))
JumpMonth == Run("jumpMonth", jumpMonth(db))
JumpYear == Run("jumpYear", jumpYear(db))
SkipWeekend == Run("skipWeekend", skipWeekend(db))
JumpForm(y, m, dd) == Run("jumpForm", jumpForm(db, y, m, dd))
JumpFormDefault ==
  LET n == db.system.currentDate
  IN Run("jumpForm", jumpForm(db, YearOf(n), MonthOf(n), DayOf(n)))
\* the reset button: priceCache.clear(); priceFetches.clear() between the
\* stores cleared and the defaults written
ResetBtn ==
  LET r == resetBtn(db)
  IN /\ db' = r.db
     /\ jumpError' = r.jumpError
     /\ lastOp' = [op |-> "resetBtn", outcome |-> r.outcome, shown |-> r.shown]
     /\ loader' = [loader EXCEPT !.priceCache = {}, !.priceFetches = {}]
     /\ UNCHANGED <<procs, refreshGeneration, conc, els, lookup, rebuilt>>

\* buyMaxForm: buy(symbol, undefined, (await getSystem()).cash)
BuyMax(symbol) == Buy(symbol, Budget(db.system.cash))
DoBuyMax == \E symbol \in Symbols : BuyMax(symbol)
DoBuy(args) == \E symbol \in Symbols, arg \in args : Buy(symbol, arg)
DoSell(args) == \E symbol \in Symbols, arg \in args : Sell(symbol, arg)
DoJumpForm(inputs) == \E j \in inputs : JumpForm(j[1], j[2], j[3])

\* the step A, kept when the log and the history it leaves are within bounds
Within(A, maxTx, maxHist) ==
  A /\ Len(db'.transactions) <= maxTx /\ Len(db'.history) <= maxHist

\* Spec: every handler, one at a time
Next == \/ Within(DoBuy(BuyArgs), MaxTx, MaxHist)
        \/ Within(DoSell(SellArgs), MaxTx, MaxHist)
        \/ Within(NextBtn, MaxTx, MaxHist)
        \/ Within(JumpWeek, MaxTx, MaxHist)
        \/ Within(JumpMonth, MaxTx, MaxHist)
        \/ Within(JumpYear, MaxTx, MaxHist)
        \/ Within(SkipWeekend, MaxTx, MaxHist)
        \/ Within(DoJumpForm(JumpInputs), MaxTx, MaxHist)
        \/ Within(JumpFormDefault, MaxTx, MaxHist)
        \/ Within(ResetBtn, MaxTx, MaxHist)
Spec == Init /\ [][Next]_vars

\* SpecLedger: longer sequences of trades, the clock moved by jumpWeek and
\* skipWeekend only
NextLedger == \/ Within(DoBuy(StepBuyArgs), MaxLedgerTx, MaxLedgerHist)
              \/ Within(DoSell(StepSellArgs), MaxLedgerTx, MaxLedgerHist)
              \/ Within(JumpWeek, MaxLedgerTx, MaxLedgerHist)
              \/ Within(SkipWeekend, MaxLedgerTx, MaxLedgerHist)
SpecLedger == Init /\ [][NextLedger]_vars

\* SpecBudget: buys by cash budget and of the whole balance, the clock moved
\* by jumpWeek; no buy is tried once the log is full
NextBudget == \/ Len(db.transactions) < MaxBudgetTx /\ DoBuy(BudgetArgs)
              \/ Len(db.transactions) < MaxBudgetTx /\ DoBuyMax
              \/ Within(JumpWeek, MaxBudgetTx, MaxBudgetHist)
SpecBudget == Init /\ [][NextBudget]_vars

\* SpecReplay: trades in both phases of a day, the clock moved by nextBtn and
\* jumpWeek
NextReplay == \/ Within(DoBuy(StepBuyArgs), MaxReplayTx, MaxReplayHist)
              \/ Within(DoSell(StepSellArgs), MaxReplayTx, MaxReplayHist)
              \/ Within(NextBtn, MaxReplayTx, MaxReplayHist)
              \/ Within(JumpWeek, MaxReplayTx, MaxReplayHist)
SpecReplay == Init /\ [][NextReplay]_vars

\* SpecClock: longer sequences of navigation, no trade
NextClock == \/ Within(NextBtn, 0, MaxClockHist)
             \/ Within(JumpWeek, 0, MaxClockHist)
             \/ Within(JumpMonth, 0, MaxClockHist)
             \/ Within(JumpYear, 0, MaxClockHist)
             \/ Within(SkipWeekend, 0, MaxClockHist)
             \/ Within(DoJumpForm(ClockJumpInputs), 0, MaxClockHist)
             \/ Within(JumpFormDefault, 0, MaxClockHist)
             \/ Within(ResetBtn, 0, MaxClockHist)
SpecClock == Init /\ [][NextClock]_vars

\* ------------------------------------------------------------------------
\* SpecConc: handlers in flight together.  A handler runs from one await to
\* the next without interruption; the store operation it issues before it
\* suspends takes effect in the order of issue, so each step below is a
\* handler resumed from one await, run up to its next, with the effect of
\* the store operation it awaits there.  The price series are loaded once and
\* never change, so the await of getPriceAtOrBefore is run through.

Call(op, symbol, arg) == [op |-> op, symbol |-> symbol, arg |-> arg]
\* the calls explored: a buy for a dollar, a sell for fifty cents, the
\* clock advanced by a session and by a week
ConcOps == { Call("buy", "X", Budget(100)), Call("sell", "X", Budget(50)),
             Call("nextBtn", "", Shares(0)), Call("jumpWeek", "", Shares(0)) }

InFlight(i) == procs[i].pc # "idle"
NoneInFlight == \A i \in Slots : ~InFlight(i)
Return(i) == procs' = [procs EXCEPT ![i] = Idle]
Suspend(i, p) == procs' = [procs EXCEPT ![i] = p]

\* the handler is called: const sys = await getSystem()
Start(i, o) ==
  /\ ~InFlight(i)
  /\ conc.started < MaxConcOps
  /\ Suspend(i, [Idle EXCEPT !.op = o.op, !.symbol = o.symbol, !.arg = o.arg,
                             !.pc = "getSystem", !.sys = db.system])
  /\ conc' = [base |-> IF NoneInFlight THEN db ELSE conc.base,
              ops |-> IF NoneInFlight THEN <<o>> ELSE Append(conc.ops, o),
              unloaded |-> FALSE,
              started |-> conc.started + 1,
              mixed |-> conc.mixed]
  /\ UNCHANGED <<db, jumpError, lastOp, refreshGeneration, els, loader, lookup, rebuilt>>

\* buy and sell from getSystem to await db.get('holdings', symbol)
ReadHolding(i) ==
  LET p == procs[i]
      date == p.sys.currentDate
      price == getPriceAtOrBefore(p.symbol, date)
      qty == resolveQty(p.arg, price)
      rejected ==
        \/ ~isCrypto(p.symbol) /\ isWeekend(date)
        \/ price = undefined
        \/ /\ p.op = "buy"
           /\ \/ isCrypto(p.symbol) /\ ~cryptoAvailable(p.symbol, date)
              \/ qty <= 0
              \/ insufficientCash(p.sys.cash, RoundCash(qty, price))
  IN /\ p.pc = "getSystem" /\ p.op \in TradeOps
     /\ IF rejected THEN Return(i)
        ELSE Suspend(i, [p EXCEPT !.pc = "getHolding",
                                  !.existing = getHolding(db.holdings, p.symbol)])
     /\ UNCHANGED <<db, jumpError, lastOp, refreshGeneration, conc, els, loader, lookup, rebuilt>>

\* conc.mixed[k], kept for the properties: the refresh in slot k has read a
\* system record that lacks the cash of a trade whose holding is written
\* before the refresh reads the holdings.
\* HoldingAhead: a trade has written its holding and not yet its cash
HoldingAhead == \E j \in Slots : procs[j].pc = "putHolding"
\* the refresh in slot k is between its getSystem and its getHoldings
ReadsBetween(k) == procs[k].pc = "refresh.getSystem"

\* the quantity, the price and the cash amount of the trade in flight
tradePrice(p) == getPriceAtOrBefore(p.symbol, p.sys.currentDate)
tradeQty(p) ==
  IF p.op = "buy" THEN resolveQty(p.arg, tradePrice(p))
  ELSE Min(resolveQty(p.arg, tradePrice(p)), p.existing.shares)
tradeTotal(p) == RoundCash(tradeQty(p), tradePrice(p))

\* buy and sell from the holding read to await putHolding / delHolding
WriteHolding(i) ==
  LET p == procs[i]
      qty == tradeQty(p)
  IN /\ p.pc = "getHolding"
     /\ IF p.op = "sell" /\ (p.existing.shares <= 0 \/ qty <= 0)
        THEN Return(i) /\ UNCHANGED <<db, conc>>
        ELSE /\ Suspend(i, [p EXCEPT !.pc = "putHolding"])
             /\ db' = [db EXCEPT !.holdings =
                         IF p.op = "buy"
                         THEN putHolding(@, buyHolding(p.existing, p.symbol, qty,
                                                       tradePrice(p), tradeTotal(p)))
                         ELSE sellHoldings(@, p.existing, p.symbol, qty)]
             /\ conc' = [conc EXCEPT !.mixed = [k \in Slots |-> @[k] \/ ReadsBetween(k)]]
     /\ UNCHANGED <<jumpError, lastOp, refreshGeneration, els, loader, lookup, rebuilt>>

\* buy and sell from the holding written to await putSystem(sys)
WriteSystem(i) ==
  LET p == procs[i]
      sys == [p.sys EXCEPT !.cash = IF p.op = "buy" THEN @ - tradeTotal(p)
                                    ELSE @ + tradeTotal(p)]
  IN /\ p.pc = "putHolding"
     /\ Suspend(i, [p EXCEPT !.pc = "putSystem", !.sys = sys])
     /\ db' = [db EXCEPT !.system = sys]
     /\ UNCHANGED <<jumpError, lastOp, refreshGeneration, conc, els, loader, lookup, rebuilt>>

\* buy and sell from the system record written to await addTx
AddTx(i) ==
  LET p == procs[i]
      \* the cash of sys is not in the transaction
      tx == IF p.op = "buy"
            THEN buyTx(p.sys, p.symbol, tradeQty(p), tradePrice(p), tradeTotal(p))
            ELSE sellTx(p.sys, p.symbol, tradeQty(p), tradePrice(p), tradeTotal(p),
                        p.existing)
  IN /\ p.pc = "putSystem" /\ p.op \in TradeOps
     /\ Suspend(i, [p EXCEPT !.pc = "addTx"])
     /\ db' = [db EXCEPT !.transactions = Append(@, tx)]
     /\ UNCHANGED <<jumpError, lastOp, refreshGeneration, conc, els, loader, lookup, rebuilt>>

\* nextBtn and jumpWeek from getSystem to await putSystem(s)
NavWrite(i) ==
  LET p == procs[i]
      r == IF p.op = "nextBtn" THEN nextBtn([db EXCEPT !.system = p.sys])
           ELSE jumpWeek([db EXCEPT !.system = p.sys])
  IN /\ p.pc = "getSystem" /\ p.op \in NavOps
     /\ IF r.outcome = "HorizonReached"
        THEN Return(i) /\ jumpError' = "max" /\ UNCHANGED db
        ELSE /\ Suspend(i, [p EXCEPT !.pc = "putSystem", !.sys = r.db.system])
             /\ db' = [db EXCEPT !.system = r.db.system]
             /\ jumpError' = IF r.shown = "max" THEN "max" ELSE "hidden"
     /\ UNCHANGED <<lastOp, refreshGeneration, conc, els, loader, lookup, rebuilt>>

\* refresh is called: const generation = ++refreshGeneration;
\* const sys = await getSystem()
CallRefresh(i) ==
  LET p == procs[i]
  IN /\ \/ p.pc = "addTx"
        \/ p.pc = "putSystem" /\ p.op \in NavOps
     /\ refreshGeneration' = i
     /\ Suspend(i, [p EXCEPT !.pc = "refresh.getSystem", !.sys = db.system])
     /\ conc' = [conc EXCEPT !.mixed[i] = HoldingAhead]
     /\ UNCHANGED <<db, jumpError, lastOp, els, loader, lookup, rebuilt>>

\* refresh from getSystem to await getHoldings()
RefreshHoldings(i) ==
  LET p == procs[i]
  IN /\ p.pc = "refresh.getSystem"
     /\ IF refreshGeneration # i THEN Return(i) /\ UNCHANGED jumpError
        ELSE /\ Suspend(i, [p EXCEPT !.pc = "refresh.getHoldings", !.holdings = db.holdings])
             /\ jumpError' = "hidden"
     /\ UNCHANGED <<db, lastOp, refreshGeneration, conc, els, loader, lookup, rebuilt>>

\* refresh from the holdings read, through renderPinned, renderHoldings and
\* their generation checks, to const txs = await getRecentTx(20) in
\* renderTransactions
RenderTransactions(i) ==
  LET p == procs[i]
  IN /\ p.pc = "refresh.getHoldings"
     /\ IF refreshGeneration # i THEN Return(i)
        ELSE Suspend(i, [p EXCEPT !.pc = "refresh.getRecentTx"])
     /\ UNCHANGED <<db, jumpError, lastOp, refreshGeneration, conc, els, loader, lookup, rebuilt>>

\* refresh from the transactions read, which renderTransactions writes to
\* the table with no generation check, through the checks that follow and
\* appendPortfolioHistory, to renderChart and the return
RefreshHistory(i) ==
  LET p == procs[i]
      pv == portfolioValue([holdings |-> p.holdings], p.sys)
      txBody == written(i)
  IN /\ p.pc = "refresh.getRecentTx"
     /\ Return(i)
     /\ IF refreshGeneration # i
        THEN /\ els' = [els EXCEPT !.txBody = txBody]
             /\ UNCHANGED <<db, refreshGeneration>>
        ELSE /\ db' = [db EXCEPT !.history =
                         appendPortfolioHistory(@, [date |-> p.sys.currentDate,
                                                    time |-> p.sys.timeOfDay,
                                                    value |-> pv])]
             /\ els' = [els EXCEPT !.txBody = txBody, !.chart = written(i)]
             /\ refreshGeneration' = 0
     /\ UNCHANGED <<jumpError, lastOp, conc, loader, lookup, rebuilt>>

\* the page is unloaded: the handlers in flight never resume
Unload ==
  /\ ~NoneInFlight
  /\ procs' = [i \in Slots |-> Idle]
  /\ refreshGeneration' = 0
  /\ conc' = [conc EXCEPT !.unloaded = TRUE]
  /\ UNCHANGED <<db, jumpError, lastOp, els, loader, lookup, rebuilt>>

NextConc == \/ \E i \in Slots, o \in ConcOps : Start(i, o)
            \/ \E i \in Slots : ReadHolding(i)
            \/ \E i \in Slots : WriteHolding(i)
            \/ \E i \in Slots : WriteSystem(i)
            \/ \E i \in Slots : AddTx(i)
            \/ \E i \in Slots : NavWrite(i)
            \/ \E i \in Slots : CallRefresh(i)
            \/ \E i \in Slots : RefreshHoldings(i)
            \/ \E i \in Slots : RenderTransactions(i)
            \/ \E i \in Slots : RefreshHistory(i)
            \/ Unload
SpecConc == Init /\ [][NextConc]_vars

\* ------------------------------------------------------------------------
\* Properties of the clock (SpecClock)

\* the step just taken was a navigation handler's
NavStep == lastOp'.op \in NavOps
\* the step is the jump form submitted with a date before the current date
EarlierJump ==
  \E j \in ClockJumpInputs :
    /\ DateUTC(j[1], j[2], j[3]) < db.system.currentDate
    /\ JumpForm(j[1], j[2], j[3])

\* C3: over navigation handlers run one at a time currentDate never
\* decreases, and the jump form submitted with a date earlier than
\* currentDate leaves currentDate and timeOfDay as they were and puts the
\* backwards-in-time message on display.
C3_ClockMonotonic ==
  [][ /\ NavStep => db'.system.currentDate >= db.system.currentDate
      /\ EarlierJump => /\ db'.system.currentDate = db.system.currentDate
                        /\ db'.system.timeOfDay = db.system.timeOfDay
                        /\ jumpError' = "back" ]_vars
\* a jump to an earlier date was refused after the clock had moved on
C3_Witness ==
  /\ lastOp.op = "jumpForm" /\ lastOp.outcome = "BackwardJump"
  /\ jumpError = "back"
  /\ db.system.currentDate > DateUTC(2009, 1, 3)

\* C4: in every reachable state GAME_START_DATE <= currentDate <= MAX_DATE.
C4_DateInRange ==
  /\ GAME_START_DATE <= db.system.currentDate
  /\ db.system.currentDate <= MAX_DATE
\* jumpWeek from within a week of MAX_DATE was clamped to MAX_DATE
C4_Witness ==
  /\ lastOp.op = "jumpWeek" /\ lastOp.outcome = "ok" /\ lastOp.shown = "max"
  /\ db.system.currentDate = MAX_DATE

\* the step takes the clock from (d, close) to (d, open) for the same date d
Reopened ==
  /\ db'.system.currentDate = db.system.currentDate
  /\ db.system.timeOfDay = "close"
  /\ db'.system.timeOfDay = "open"
\* C5 as stated: no navigation handler takes the clock to an earlier date or
\* from (d, close) to (d, open) for the same date d.
C5_PhaseMonotonic ==
  [][ NavStep => /\ db'.system.currentDate >= db.system.currentDate
                 /\ ~Reopened ]_vars
\* C5 amended: no navigation handler takes the clock to an earlier date, and
\* only two take it from (d, close) to (d, open): the jump form submitted
\* with the current date, and skipWeekend at MAX_DATE.
C5_ReopenedOnlyByJump ==
  [][ NavStep =>
        /\ db'.system.currentDate >= db.system.currentDate
        /\ Reopened => \/ lastOp'.op = "jumpForm"
                       \/ lastOp'.op = "skipWeekend" /\ db.system.currentDate = MAX_DATE ]_vars
\* the jump form has taken the clock from (d, close), the snapshot before the
\* last, to (d, open)
C5_Witness ==
  LET h == db.history
  IN /\ lastOp.op = "jumpForm" /\ lastOp.outcome = "ok"
     /\ Len(h) >= 2
     /\ h[Len(h) - 1].date = db.system.currentDate /\ h[Len(h) - 1].time = "close"
     /\ h[Len(h)].date = db.system.currentDate /\ h[Len(h)].time = "open"
     /\ db.system.timeOfDay = "open"

\* ------------------------------------------------------------------------
\* Properties of the ledger (Spec, SpecLedger)

\* the conditions under which a buy is to fail, read off the store before it:
\* no price at or before the date, the instrument not tradable on the date,
\* a resolved quantity that is not positive, a cost above the cash
BuyMustFail(symbol, arg) ==
  LET date == db.system.currentDate
      price == getPriceAtOrBefore(symbol, date)
      tradable == IF symbol \in DOMAIN CRYPTO THEN date >= CRYPTO[symbol]
                  ELSE getUTCDay(date) \notin {0, 6}
  IN \/ price = undefined
     \/ ~tradable
     \/ LET qty == resolveQty(arg, price)
        IN qty <= 0 \/ RoundCash(qty, price) > db.system.cash

\* C6: a buy whose price is undefined, whose instrument is not tradable on
\* currentDate, whose resolved quantity is <= 0 or whose cost exceeds the cash
\* leaves cash, holdings, transaction log and clock as they were.
C6_FailedBuyNoChange ==
  [][ (lastOp'.op = "buy" /\ db' # db) =>
        \A symbol \in Symbols, arg \in StepBuyArgs :
          Buy(symbol, arg) => ~BuyMustFail(symbol, arg) ]_vars
\* a buy was refused for its cost after an earlier trade went through
C6_Witness ==
  /\ lastOp.op = "buy" /\ lastOp.outcome = "InsufficientFunds"
  /\ Len(db.transactions) >= 1

\* the branches in which a handler rejects the operation
Rejections == {"PriceUnavailable", "InstrumentUnavailable", "InsufficientFunds",
               "InvalidQuantity", "NoHolding", "BackwardJump"}
\* C7: every rejected trade or navigation puts a reason in front of the
\* caller: the handler that took a rejecting branch has displayed a message.
C7_ReasonSurfaced ==
  lastOp.outcome \in Rejections => lastOp.shown # "none"

\* C8: in every reachable state the cash balance is >= 0.
C8_CashNonNegative == db.system.cash >= 0
\* a buy has been paid for out of the cash
C8_Witness ==
  /\ lastOp.op = "buy" /\ lastOp.outcome = "ok"
  /\ db.system.cash < StartCash

\* C9: every holding quantity and every transaction quantity is a whole
\* number of SHARE_STEPs (cash and totals are whole cents by representation).
C9_Quantized ==
  /\ \A symbol \in DOMAIN db.holdings : db.holdings[symbol].shares % TicksPerStep = 0
  /\ \A i \in 1..Len(db.transactions) : db.transactions[i].shares % TicksPerStep = 0

\* the lot of a symbol after the first i entries of the log: the shares held,
\* and since the holding was last created the number of buys, their summed
\* quantity (ticks), their summed quantity * price (cents) and whether a sell
\* came in between
NoLot == [shares |-> 0, buys |-> 0, sumQ |-> 0, sumQP |-> Frac(0, 1), sold |-> FALSE]
RECURSIVE lotOf(_, _, _)
lotOf(log, symbol, i) ==
  IF i = 0 THEN NoLot
  ELSE LET prev == lotOf(log, symbol, i - 1)
           t == log[i]
           qp == FracMul(InShares(t.shares), Frac(t.price, 1))
       IN IF t.symbol # symbol THEN prev
          ELSE IF t.type = "BUY"
            THEN [shares |-> prev.shares + t.shares, buys |-> prev.buys + 1,
                  sumQ |-> prev.sumQ + t.shares, sumQP |-> FracAdd(prev.sumQP, qp),
                  sold |-> prev.sold]
          ELSE IF toFixed4(prev.shares - t.shares) <= 0 THEN NoLot
          ELSE [prev EXCEPT !.shares = toFixed4(prev.shares - t.shares), !.sold = TRUE]
Lot(symbol) == lotOf(db.transactions, symbol, Len(db.transactions))
\* avgCost * sum of qi differs from the sum of qi * pi by at most half a cent
\* for each buy
AvgWithinTolerance(symbol) ==
  LET lot == Lot(symbol)
      basis == FracMul(db.holdings[symbol].avgCost, InShares(lot.sumQ))
      diff == FracAdd(basis, [n |-> -lot.sumQP.n, d |-> lot.sumQP.d])
  IN 2 * Abs(diff.n) <= lot.buys * diff.d
\* a sell leaves the avgCost of every holding that remains as it was
SellKeepsAvgCost ==
  lastOp'.op = "sell" =>
    \A symbol \in (DOMAIN db.holdings) \cap (DOMAIN db'.holdings) :
      db'.holdings[symbol].avgCost = db.holdings[symbol].avgCost

\* C10 as stated: after buys q1..qn at p1..pn of a holding never fully
\* liquidated in between, avgCost = sum(qi*pi)/sum(qi) within the tolerance of
\* rounding each cost to the cent.
C10_AvgCostOfBuys ==
  \A symbol \in DOMAIN db.holdings : AvgWithinTolerance(symbol)
\* C10 amended: the same for a holding of which nothing was sold since it was
\* created; and a sell never changes the avgCost of the holding that remains.
C10_AvgCostNoSellBetween ==
  /\ [](\A symbol \in DOMAIN db.holdings :
          ~Lot(symbol).sold => AvgWithinTolerance(symbol))
  /\ [][SellKeepsAvgCost]_vars
\* two buys at different prices, the second cost rounded, nothing sold
C10_Witness ==
  \E symbol \in DOMAIN db.holdings :
    LET lot == Lot(symbol)
    IN /\ lot.buys >= 2 /\ ~lot.sold
       /\ FracMul(db.holdings[symbol].avgCost, InShares(lot.sumQ)) # lot.sumQP

\* ------------------------------------------------------------------------
\* Properties of handlers in flight together (SpecConc)

\* the persisted clock and cash, holdings and transaction log
Persisted(d) == <<d.system, d.holdings, d.transactions>>
\* the store after the call o run from call to return on the store d
ApplyCall(o, d) ==
  IF o.op = "buy" THEN buy(d, "hidden", o.symbol, o.arg).db
  ELSE IF o.op = "sell" THEN sell(d, "hidden", o.symbol, o.arg).db
  ELSE IF o.op = "nextBtn" THEN nextBtn(d).db
  ELSE jumpWeek(d).db

\* C1: when two handlers were in flight together and both have returned, the
\* persisted clock, cash, holdings and transaction log are those of the two
\* run one after the other, in one order or the other.
C1_Serializable ==
  (NoneInFlight /\ ~conc.unloaded /\ Len(conc.ops) = 2) =>
    Persisted(db) \in
      { Persisted(ApplyCall(conc.ops[2], ApplyCall(conc.ops[1], conc.base))),
        Persisted(ApplyCall(conc.ops[1], ApplyCall(conc.ops[2], conc.base))) }

\* C2: of a buy or sell, called with no other handler in flight, the holding
\* update, the cash update and the transaction-log append are in the store
\* all three or none, in every state, those after an unload included.  (Each
\* trade of ConcOps moves at least a cent.)
C2_AllOrNothing ==
  (Len(conc.ops) = 1 /\ conc.ops[1].op \in TradeOps) =>
    LET holdingApplied == db.holdings # conc.base.holdings
        cashApplied == db.system.cash # conc.base.system.cash
        txApplied == db.transactions # conc.base.transactions
    IN holdingApplied = cashApplied /\ cashApplied = txApplied

\* ------------------------------------------------------------------------
\* Further properties of the ledger

\* C11: no holding with a quantity <= 0 is in the store: a sell whose
\* remaining quantity rounds to zero deletes the record, and buy writes a
\* positive quantity.
C11_HoldingsPositive ==
  \A symbol \in DOMAIN db.holdings : db.holdings[symbol].shares > 0
\* a sell of more than was held has removed the holding bought before
C11_Witness ==
  /\ lastOp.op = "sell" /\ lastOp.outcome = "ok"
  /\ "X" \notin DOMAIN db.holdings
  /\ Len(db.transactions) >= 2
  /\ db.transactions[Len(db.transactions)].type = "SELL"

\* the quantity a sell asks for, resolved at the price of the current date
SellRequested(symbol, arg) ==
  resolveQty(arg, getPriceAtOrBefore(symbol, db.system.currentDate))
\* the sell of symbol can execute: a holding of it exists, the instrument is
\* tradable on the current date and it has a price
SellCanExecute(symbol) ==
  /\ symbol \in DOMAIN db.holdings
  /\ isCrypto(symbol) \/ getUTCDay(db.system.currentDate) \notin {0, 6}
  /\ getPriceAtOrBefore(symbol, db.system.currentDate) # undefined
\* C12: a sell that asks for more than is held sells exactly what is held:
\* the holding is deleted, cash grows by round(held * price) and the log gains
\* a SELL of the held quantity; a sell with no holding, or whose resolved
\* quantity is <= 0, leaves the store as it was.
C12_SellClamped ==
  [][ lastOp'.op = "sell" =>
        \A symbol \in Symbols, arg \in StepSellArgs :
          LET price == getPriceAtOrBefore(symbol, db.system.currentDate)
          IN /\ ( /\ SellCanExecute(symbol)
                  /\ SellRequested(symbol, arg) > db.holdings[symbol].shares
                  /\ Sell(symbol, arg) ) =>
                    LET held == db.holdings[symbol].shares
                        log == db'.transactions
                    IN /\ symbol \notin DOMAIN db'.holdings
                       /\ db'.system.cash = db.system.cash + RoundCash(held, price)
                       /\ Len(log) = Len(db.transactions) + 1
                       /\ log[Len(log)].type = "SELL"
                       /\ log[Len(log)].symbol = symbol
                       /\ log[Len(log)].shares = held
                       /\ log[Len(log)].total = RoundCash(held, price)
             /\ ( /\ db' # db
                  /\ \/ symbol \notin DOMAIN db.holdings
                     \/ price # undefined /\ SellRequested(symbol, arg) <= 0 )
                  => ~Sell(symbol, arg) ]_vars
\* the whole of a holding of 0.01 share went in one sell
C12_Witness ==
  LET log == db.transactions
  IN /\ lastOp.op = "sell" /\ lastOp.outcome = "ok"
     /\ Len(log) >= 2
     /\ log[Len(log)].type = "SELL" /\ log[Len(log)].shares = 100 * TicksPerStep
     /\ "X" \notin DOMAIN db.holdings

\* the transaction a step appends to the log
Appended == db'.transactions[Len(db'.transactions)]
AppendsOne ==
  /\ Len(db'.transactions) = Len(db.transactions) + 1
  /\ SubSeq(db'.transactions, 1, Len(db.transactions)) = db.transactions
\* proceeds - avgCost * quantity of a SELL transaction t, with the avgCost of
\* the holding before the sell, as an exact fraction of a cent
ExactPnL(t) ==
  LET costBasis == FracMul(db.holdings[t.symbol].avgCost, InShares(t.shares))
  IN FracAdd(Frac(t.total, 1), [n |-> -costBasis.n, d |-> costBasis.d])
\* what every appended transaction has whatever its profit: a SELL's total is
\* round(quantity * price), it is what cash grows by, and a BUY has no
\* realized profit
SellTotals ==
  AppendsOne =>
    LET t == Appended
    IN IF t.type = "SELL"
       THEN /\ t.symbol \in DOMAIN db.holdings
            /\ t.total = RoundCash(t.shares, t.price)
            /\ t.price = getPriceAtOrBefore(t.symbol, db.system.currentDate)
            /\ db'.system.cash = db.system.cash + t.total
            /\ "profit_loss" \in DOMAIN t
       ELSE "profit_loss" \notin DOMAIN t

\* C13 as stated: every SELL transaction records realizedPnL = proceeds -
\* avgCost * quantity with the holding's avgCost at execution, proceeds =
\* round(quantity * price) being the total and the amount added to cash; a BUY
\* carries no realizedPnL.
C13_RealizedPnLExact ==
  [][ /\ SellTotals
      /\ (AppendsOne /\ Appended.type = "SELL") =>
           ExactPnL(Appended) = Frac(Appended.profit_loss, 1) ]_vars
\* C13 amended: the realizedPnL recorded is proceeds - avgCost * quantity
\* rounded to the cent (at most half a cent away from it); the rest as stated.
C13_RealizedPnLRounded ==
  [][ /\ SellTotals
      /\ (AppendsOne /\ Appended.type = "SELL") =>
           LET exact == ExactPnL(Appended)
           IN 2 * Abs(Appended.profit_loss * exact.d - exact.n) <= exact.d ]_vars
\* a sell at 120.00 of shares bought at 100.00 has been recorded with its
\* profit
C13_Witness ==
  LET log == db.transactions
  IN /\ lastOp.op = "sell" /\ lastOp.outcome = "ok"
     /\ Len(log) >= 2
     /\ log[Len(log)].type = "SELL"
     /\ log[Len(log)].profit_loss > 0
     /\ log[Len(log) - 1].type = "BUY"
     /\ log[Len(log) - 1].price < log[Len(log)].price

\* the double cost (Math.round(...) * CASH_STEP of so many cents) exceeds the
\* budget B, a two-decimal amount
CostExceeds(cost, B) == cost > B \/ (cost = B /\ CashStepRoundsUp(cost))
\* C14: a buy with the cash budget B resolves the quantity
\* floor(B / price / SHARE_STEP) * SHARE_STEP and its cost round(quantity *
\* price) never exceeds B; a buy whose budget is the whole cash balance is
\* never rejected for insufficient funds.
C14_BudgetNeverOverspends ==
  [][ lastOp'.op = "buy" =>
        \A symbol \in Symbols :
          LET price == getPriceAtOrBefore(symbol, db.system.currentDate)
              log == db'.transactions
          IN /\ BuyMax(symbol) => lastOp'.outcome # "InsufficientFunds"
             /\ \A arg \in BudgetArgs \cup {Budget(db.system.cash)} :
                  (Len(log) > Len(db.transactions) /\ Buy(symbol, arg)) =>
                     /\ log[Len(log)].shares = BudgetTicks(arg.v, price)
                     /\ ~CostExceeds(log[Len(log)].total, arg.v) ]_vars

\* C15: every navigation operation leaves cash, holdings and the transaction
\* log unchanged, and every buy or sell leaves currentDate and the session
\* phase unchanged.
C15_Frame ==
  [][ /\ lastOp'.op \in NavOps =>
           /\ db'.system.cash = db.system.cash
           /\ db'.holdings = db.holdings
           /\ db'.transactions = db.transactions
      /\ lastOp'.op \in TradeOps =>
           /\ db'.system.currentDate = db.system.currentDate
           /\ db'.system.timeOfDay = db.system.timeOfDay ]_vars
\* a navigation operation has moved the clock of a ledger that holds shares
\* bought earlier
C15_Witness ==
  /\ lastOp.op \in NavOps /\ lastOp.outcome = "ok"
  /\ db.system.currentDate > GAME_START_DATE
  /\ db.holdings # << >>
  /\ Len(db.transactions) = 1
  /\ db.transactions[1].date = GAME_START_DATE
  /\ db.system.cash = StartCash - db.transactions[1].total

\* ------------------------------------------------------------------------
\* Properties of the reconstructor

\* what refresh hands to the chart: the reconstruction from the store
Filled == computeFilledMonthlyHistory(db.history, db.system.currentDate, db.transactions)
\* the month of the earliest snapshot
EarliestMonth ==
  LET months == { toMonthKey(db.history[i].date) : i \in 1..Len(db.history) }
  IN CHOOSE k \in months : \A j \in months : k <= j
\* the date lies in the month of that key
InMonth(date, key) ==
  LET first == DateUTC(key \div 12, (key % 12) + 1, 1)
  IN first <= date /\ date < first + DaysInMonth(key \div 12, (key % 12) + 1)
\* C16: the reconstructor emits exactly one point for each calendar month from
\* the month of the earliest snapshot through the month of currentDate, in
\* ascending order, with no gap and no duplicate.
C16_OnePointPerMonth ==
  LET out == Filled
      earliest == EarliestMonth
  IN /\ Len(out) = toMonthKey(db.system.currentDate) - earliest + 1
     /\ \A i \in 1..Len(out) : InMonth(out[i].date, earliest + (i - 1))
\* a jump of a year from a date with snapshots has left eleven months without
\* a snapshot, and the reconstruction has a point for each of them
C16_Witness ==
  /\ lastOp.op = "jumpYear" /\ lastOp.outcome = "ok"
  /\ toMonthKey(db.system.currentDate) - EarliestMonth >= 12
  /\ Len(db.history) <= 3
  /\ Len(Filled) >= 13

\* the share count and the cash of the replay when the reconstruction is over
Replayed == replayed(db.history, db.system.currentDate, db.transactions)
\* - sum of the BUY totals + sum of the SELL totals of the first i transactions
RECURSIVE netCash(_, _)
netCash(log, i) ==
  IF i = 0 THEN 0
  ELSE netCash(log, i - 1) + (IF log[i].type = "BUY" THEN -log[i].total ELSE log[i].total)
\* C17: when the reconstructor has replayed the whole log, its share count of
\* every instrument is the quantity the Ledger holds (zero without a holding)
\* and its cash has changed by - sum of BUY totals + sum of SELL totals.
C17_ReplayMatchesLedger ==
  LET r == Replayed
  IN /\ r.idx = Len(db.transactions) + 1
     /\ \A symbol \in Symbols :
          (IF symbol \in DOMAIN r.shares THEN r.shares[symbol] ELSE 0)
            = (IF symbol \in DOMAIN db.holdings THEN db.holdings[symbol].shares ELSE 0)
     /\ r.cash.cents = initialCashOf(db.history).cents
                         + netCash(db.transactions, Len(db.transactions))

\* replay takes the transactions by date, OPEN before CLOSE within a date
ReplayChronological ==
  LET txs == sortByDateTime(db.transactions)
  IN \A i, j \in 1..Len(txs) :
       i < j => /\ txs[i].date <= txs[j].date
                /\ txs[i].date = txs[j].date => ~(txs[i].time = "close" /\ txs[j].time = "open")
\* C18: no operation other than reset modifies, removes or reorders a
\* transaction of the log, and replay consumes the transactions ordered by
\* (date, session phase with OPEN before CLOSE, insertion order).
C18_AppendOnlyChronological ==
  [][ /\ lastOp'.op # "resetBtn" =>
           /\ Len(db'.transactions) >= Len(db.transactions)
           /\ SubSeq(db'.transactions, 1, Len(db.transactions)) = db.transactions
      /\ ReplayChronological' ]_vars

\* ------------------------------------------------------------------------
\* Properties of the snapshot history

\* C19: the snapshot history holds at most one snapshot for each key (date,
\* session phase): recording a key the history has overwrites its entry,
\* recording any other key appends one entry.
C19_OneSnapshotPerKey ==
  \A i, j \in 1..Len(db.history) :
    (db.history[i].date = db.history[j].date /\ db.history[i].time = db.history[j].time)
      => i = j

\* cash + the sum over the holdings in S of quantity * priceAtOrBefore, a
\* holding without a price adding nothing; in cents and 1/TicksPerShare cent
RECURSIVE Valuation(_)
Valuation(S) ==
  IF S = {} THEN [cents |-> db.system.cash, frac |-> 0]
  ELSE LET symbol == CHOOSE x \in S : TRUE
           rest == Valuation(S \ {symbol})
           price == getPriceAtOrBefore(symbol, db.system.currentDate)
           qty == db.holdings[symbol].shares
           f == rest.frac + (IF price = undefined THEN 0 ELSE FracCents(qty, price))
       IN [cents |-> rest.cents + (IF price = undefined THEN 0 ELSE WholeCents(qty, price))
                       + (f \div TicksPerShare),
           frac |-> f % TicksPerShare]
\* C20: after a clock-advance operation whose refresh has completed, the
\* history has an entry keyed (currentDate, session phase) whose value is cash
\* plus the sum over the holdings of quantity * priceAtOrBefore.
C20_SnapshotAtAdvance ==
  (lastOp.op \in NavOps /\ lastOp.outcome = "ok") =>
    \E i \in 1..Len(db.history) :
      /\ db.history[i].date = db.system.currentDate
      /\ db.history[i].time = db.system.timeOfDay
      /\ db.history[i].value = Valuation(DOMAIN db.holdings)
\* jumpWeek has recorded the value of a ledger whose shares are worth more
\* than they cost
C20_Witness ==
  /\ lastOp.op = "jumpWeek" /\ lastOp.outcome = "ok"
  /\ "X" \in DOMAIN db.holdings
  /\ db.history[Len(db.history)].date = db.system.currentDate
  /\ db.history[Len(db.history)].value.cents > StartCash

\* ------------------------------------------------------------------------
\* Properties of the rendering

\* C21: a refresh superseded by a newer call of refresh never renders its
\* result: every element of the page, the transactions table and the chart
\* among them, was last written by a refresh holding the latest generation.
C21_LatestGenerationRenders ==
  \A e \in DOMAIN els : els[e] = "latest"

\* ------------------------------------------------------------------------
\* SpecLoad: the calls of loadPriceSeries, the loads they start resumed from
\* one await to the next, and the reset button, which clears the two maps

\* the loads of a symbol in flight, the writes of putPrices among them
Running(symbol) ==
  LET b == loader.bodies[symbol]
  IN b.getPrices + b.fetchHistory + b.putPrices

\* loadPriceSeries is called: the cached series, the promise of the load in
\* flight, or a new load, which runs to await getPrices(symbol)
LoadPriceSeries(symbol) ==
  /\ IF symbol \in loader.priceCache \/ symbol \in loader.priceFetches
     THEN UNCHANGED loader
     ELSE /\ Running(symbol) < MaxLoads
          /\ loader' = [loader EXCEPT !.priceFetches = @ \cup {symbol},
                                      !.bodies[symbol].getPrices = @ + 1]
  /\ UNCHANGED <<db, jumpError, lastOp, procs, refreshGeneration, conc, els,
                 lookup, rebuilt>>

\* a load from getPrices to its return, or to await fetchHistory(symbol)
GetPrices(symbol) ==
  /\ loader.bodies[symbol].getPrices > 0
  /\ loader' =
       IF symbol \in loader.prices
       THEN [loader EXCEPT !.priceCache = @ \cup {symbol},
                           !.cached = @ \cup {symbol},
                           !.priceFetches = @ \ {symbol},
                           !.bodies[symbol].getPrices = @ - 1]
       ELSE [loader EXCEPT !.bodies[symbol].getPrices = @ - 1,
                           !.bodies[symbol].fetchHistory = @ + 1]
  /\ UNCHANGED <<db, jumpError, lastOp, procs, refreshGeneration, conc, els,
                 lookup, rebuilt>>

\* a load from fetchHistory to await putPrices(symbol, fetched), or to its
\* return when nothing was fetched
FetchHistory(symbol) ==
  /\ loader.bodies[symbol].fetchHistory > 0
  /\ loader' =
       IF priceCache(symbol) # << >>
       THEN [loader EXCEPT !.priceCache = @ \cup {symbol},
                           !.cached = @ \cup {symbol},
                           !.prices = @ \cup {symbol},
                           !.bodies[symbol].fetchHistory = @ - 1,
                           !.bodies[symbol].putPrices = @ + 1]
       ELSE [loader EXCEPT !.priceCache = @ \cup {symbol},
                           !.cached = @ \cup {symbol},
                           !.priceFetches = @ \ {symbol},
                           !.bodies[symbol].fetchHistory = @ - 1]
  /\ UNCHANGED <<db, jumpError, lastOp, procs, refreshGeneration, conc, els,
                 lookup, rebuilt>>

\* a load from putPrices to its return
PutPrices(symbol) ==
  /\ loader.bodies[symbol].putPrices > 0
  /\ loader' = [loader EXCEPT !.priceFetches = @ \ {symbol},
                              !.bodies[symbol].putPrices = @ - 1]
  /\ UNCHANGED <<db, jumpError, lastOp, procs, refreshGeneration, conc, els,
                 lookup, rebuilt>>

NextLoad == \/ \E symbol \in Symbols : LoadPriceSeries(symbol)
            \/ \E symbol \in Symbols : GetPrices(symbol)
            \/ \E symbol \in Symbols : FetchHistory(symbol)
            \/ \E symbol \in Symbols : PutPrices(symbol)
            \/ ResetBtn
SpecLoad == Init /\ [][NextLoad]_vars

\* ------------------------------------------------------------------------
\* Properties of the price loader

\* the loads of a symbol from the store or the network in flight
Loading(symbol) ==
  loader.bodies[symbol].getPrices + loader.bodies[symbol].fetchHistory
\* C22: at any time at most one load from the store or the network is in
\* flight for a symbol, and none is in flight for a symbol whose series has
\* been cached.
C22_OneLoadPerInstrument ==
  \A symbol \in Symbols :
    /\ Loading(symbol) <= 1
    /\ Loading(symbol) = 1 => symbol \notin loader.cached

\* ------------------------------------------------------------------------
\* SpecLookup: getPriceAtOrBefore and getPrevTradingPrice called once each
\* on a series ascending by date, dates repeated among them

\* the series with the dates q: the price of a point tells its place
SeriesOf(q) == [i \in 1..Len(q) |-> [date |-> q[i], price |-> 100 * i]]
AscendingDates ==
  { q \in UNION { [1..n -> 1..MaxSeriesDate] : n \in 0..MaxSeriesLen } :
      \A i \in 1..Len(q), j \in 1..Len(q) : i < j => q[i] <= q[j] }
LookupInputs ==
  { [NoLookup EXCEPT !.series = SeriesOf(q), !.dateStr = d,
                     !.maxLookbackDays = m] :
      q \in AscendingDates, d \in 0..(MaxSeriesDate + 1), m \in LookbackDays }

InitLookup == /\ db = initDefaults
              /\ jumpError = "hidden"
              /\ lastOp = [op |-> "main", outcome |-> "ok", shown |-> "none"]
              /\ procs = [i \in Slots |-> Idle]
              /\ refreshGeneration = 0
              /\ conc = [base |-> initDefaults, ops |-> << >>,
                         unloaded |-> FALSE, started |-> 0,
                   mixed |-> [i \in Slots |-> FALSE]]
              /\ els = rendered
              /\ loader = noneLoaded
              /\ lookup \in LookupInputs
              /\ rebuilt = NotRebuilt

GetPriceAtOrBefore ==
  /\ lookup.price = notCalled
  /\ lookup' = [lookup EXCEPT !.price = priceInSeries(lookup.series, lookup.dateStr)]
  /\ UNCHANGED <<db, jumpError, lastOp, procs, refreshGeneration, conc, els,
                 loader, rebuilt>>

GetPrevTradingPrice ==
  /\ lookup.prev = notCalled
  /\ lookup' = [lookup EXCEPT !.prev = prevInSeries(lookup.series, lookup.dateStr,
                                                    lookup.maxLookbackDays)]
  /\ UNCHANGED <<db, jumpError, lastOp, procs, refreshGeneration, conc, els,
                 loader, rebuilt>>

NextLookup == GetPriceAtOrBefore \/ GetPrevTradingPrice
SpecLookup == InitLookup /\ [][NextLookup]_vars

\* ------------------------------------------------------------------------
\* Properties of the price index

\* the places of the points of the series dated at or before dateStr
AtOrBefore ==
  { i \in 1..Len(lookup.series) : lookup.series[i].date <= lookup.dateStr }
\* C23: getPriceAtOrBefore returns the price of a point whose date is the
\* greatest of the dates at or before dateStr, and undefined when the series
\* is empty or every point is dated after dateStr.
C23_PriceAtOrBefore ==
  lookup.price # notCalled =>
    IF AtOrBefore = {} THEN lookup.price = undefined
    ELSE \E i \in AtOrBefore :
           /\ \A j \in AtOrBefore : lookup.series[j].date <= lookup.series[i].date
           /\ lookup.price = lookup.series[i].price
\* the price returned is of a point with points before it and a point after
\* dateStr behind it
C23_Witness ==
  /\ lookup.price = 200
  /\ Len(lookup.series) = 3
  /\ lookup.series[1].date < lookup.series[2].date
  /\ lookup.series[3].date > lookup.dateStr

\* the place of the reference point, the last at or before dateStr; 0 for none
Reference == IF AtOrBefore = {} THEN 0
             ELSE CHOOSE i \in AtOrBefore : \A j \in AtOrBefore : j <= i
\* the places before the reference, within maxLookbackDays entries of it,
\* of the points dated before the reference
Preceding ==
  { j \in 1..(Reference - 1) :
      /\ Reference - j <= lookup.maxLookbackDays
      /\ lookup.series[j].date < lookup.series[Reference].date }
\* C24: getPrevTradingPrice returns the price of the nearest point before the
\* reference point that is dated strictly before it and lies within
\* maxLookbackDays entries of it, and undefined when there is none, when there
\* is no reference point and when the reference is the first point.
C24_PrevTradingPrice ==
  lookup.prev # notCalled =>
    IF Preceding = {} THEN lookup.prev = undefined
    ELSE \E j \in Preceding :
           /\ \A k \in Preceding : k <= j
           /\ lookup.prev = lookup.series[j].price
\* the price returned is two entries before the reference, the entry between
\* them having the date of the reference
C24_Witness ==
  /\ lookup.prev # notCalled
  /\ Reference = 3
  /\ lookup.series[2].date = lookup.series[3].date
  /\ lookup.prev = lookup.series[1].price

\* ------------------------------------------------------------------------
\* Properties of the navigation handlers (SpecClock)

\* C25: nextBtn takes (d, open) to (d, close) for every d, MAX_DATE included,
\* (d, close) with d before MAX_DATE to (d + 1 day, open), and leaves
\* (MAX_DATE, close) as it is.
C25_AdvanceSession ==
  [][ lastOp'.op = "nextBtn" =>
        LET s == db.system
            t == db'.system
        IN IF s.timeOfDay = "open"
             THEN t.currentDate = s.currentDate /\ t.timeOfDay = "close"
           ELSE IF s.currentDate < MAX_DATE
             THEN t.currentDate = s.currentDate + 1 /\ t.timeOfDay = "open"
           ELSE t = s ]_vars
\* nextBtn has closed the session of MAX_DATE
C25_Witness ==
  /\ lastOp.op = "nextBtn" /\ lastOp.outcome = "ok"
  /\ db.system.currentDate = MAX_DATE
  /\ db.system.timeOfDay = "close"

\* the date a jump button aims at
JumpTarget(op, date) ==
  IF op = "jumpWeek" THEN date + 7
  ELSE IF op = "jumpMonth" THEN addMonths(date, 1)
  ELSE addMonths(date, 12)
\* C26: jumpWeek, jumpMonth and jumpYear, from every state of the clock,
\* MAX_DATE included, set timeOfDay to open and currentDate to the earlier of
\* currentDate + 7 days, 1 month or 12 months and MAX_DATE.
C26_JumpOpensAtTarget ==
  [][ lastOp'.op \in {"jumpWeek", "jumpMonth", "jumpYear"} =>
        /\ db'.system.timeOfDay = "open"
        /\ db'.system.currentDate =
             Min(JumpTarget(lastOp'.op, db.system.currentDate), MAX_DATE) ]_vars

\* the Monday after a Saturday or a Sunday
NextMonday(date) == IF getUTCDay(date) = 6 THEN date + 2 ELSE date + 1
\* C27: skipWeekend takes currentDate to the next Monday, or to MAX_DATE when
\* that Monday is after it, on a Saturday or a Sunday, and leaves currentDate
\* as it is on a weekday.
C27_SkipWeekendToMonday ==
  [][ lastOp'.op = "skipWeekend" =>
        db'.system.currentDate =
          IF isWeekend(db.system.currentDate)
          THEN Min(NextMonday(db.system.currentDate), MAX_DATE)
          ELSE db.system.currentDate ]_vars

\* C28: after a navigation handler that has taken the clock to MAX_DATE,
\* clamped or not, or was called with the clock at MAX_DATE, the end-of-data
\* message is on display when the handler has returned.
C28_HorizonReported ==
  /\ lastOp.op \in NavOps
  /\ lastOp.outcome # "BackwardJump"
  /\ db.system.currentDate = MAX_DATE
  => jumpError = "max"

\* ------------------------------------------------------------------------
\* SpecAvail: buys of an equity and of two cryptocurrencies on weekdays and
\* at weekends, before and after the invention dates

NextAvail ==
  \/ Within(\E symbol \in AvailSymbols, arg \in AvailArgs : Buy(symbol, arg),
            MaxAvailTx, MaxAvailHist)
  \/ Within(NextBtn, MaxAvailTx, MaxAvailHist)
  \/ Within(SkipWeekend, MaxAvailTx, MaxAvailHist)
  \/ Within(DoJumpForm(AvailJumpInputs), MaxAvailTx, MaxAvailHist)
SpecAvail == Init /\ [][NextAvail]_vars

\* ------------------------------------------------------------------------
\* Properties of the availability rules

\* the price of the symbol is known on the current date and the cash pays
\* for the quantity asked for
Affordable(symbol, arg) ==
  LET price == getPriceAtOrBefore(symbol, db.system.currentDate)
  IN /\ price # undefined
     /\ resolveQty(arg, price) > 0
     /\ RoundCash(resolveQty(arg, price), price) < db.system.cash
\* C29: with a known price and the cash to pay, the buy of a symbol that is
\* not a cryptocurrency is rejected exactly on Saturdays and Sundays, and the
\* buy of a cryptocurrency succeeds, whatever the day of the week, exactly
\* when currentDate is on or after its invention date.
C29_Availability ==
  [][ \A symbol \in AvailSymbols, arg \in AvailArgs :
        Affordable(symbol, arg) /\ Buy(symbol, arg) =>
          IF isCrypto(symbol)
          THEN lastOp'.outcome = "ok" <=> db.system.currentDate >= CRYPTO[symbol]
          ELSE /\ lastOp'.outcome = "InstrumentUnavailable"
                    <=> getUTCDay(db.system.currentDate) \in {0, 6}
               /\ lastOp'.outcome # "InstrumentUnavailable" => lastOp'.outcome = "ok" ]_vars
\* BTC-USD has been bought on a Saturday
C29_Witness ==
  /\ lastOp.op = "buy" /\ lastOp.outcome = "ok"
  /\ getUTCDay(db.system.currentDate) = 6
  /\ db.transactions[Len(db.transactions)].symbol = "BTC-USD"
  /\ db.transactions[Len(db.transactions)].date = db.system.currentDate

\* ------------------------------------------------------------------------
\* SpecScenario: ten shares of X bought and sold, the clock moved by nextBtn
\* and jumpWeek; X is at 100.00 on 2000-01-03 and at 120.00 from 2000-01-10

NextScenario ==
  \/ Within(\E arg \in ScenarioArgs : Buy("X", arg), MaxScenarioTx, MaxScenarioHist)
  \/ Within(\E arg \in ScenarioArgs : Sell("X", arg), MaxScenarioTx, MaxScenarioHist)
  \/ Within(NextBtn, MaxScenarioTx, MaxScenarioHist)
  \/ Within(JumpWeek, MaxScenarioTx, MaxScenarioHist)
SpecScenario == Init /\ [][NextScenario]_vars

\* the log begins with a buy of ten shares at 100.00
BoughtTenAt100 ==
  /\ Len(db.transactions) >= 1
  /\ db.transactions[1].type = "BUY"
  /\ db.transactions[1].shares = 10 * TicksPerShare
  /\ db.transactions[1].price = 100 * CentsPerDollar
\* and goes on with a sale of ten shares at 120.00
SoldTenAt120 ==
  /\ Len(db.transactions) = 2
  /\ db.transactions[2].type = "SELL"
  /\ db.transactions[2].shares = 10 * TicksPerShare
  /\ db.transactions[2].price = 120 * CentsPerDollar
\* C30: from a cash of 10000 and no holdings, the buy of 10 shares of X at
\* 100 costs 1000 and leaves a cash of 9000 and a holding of 10 shares at an
\* average cost of 100; the sale of the 10 shares at 120 then yields 1200, a
\* realized profit of 200, a cash of 10200 and no holding, with one BUY and
\* one SELL in the log.
C30_BuyThenSell ==
  /\ BoughtTenAt100 /\ Len(db.transactions) = 1 =>
       /\ db.transactions[1].total = 1000 * CentsPerDollar
       /\ db.system.cash = 9000 * CentsPerDollar
       /\ Held(db, "X")
       /\ db.holdings["X"].shares = 10 * TicksPerShare
       /\ db.holdings["X"].avgCost = [n |-> 100 * CentsPerDollar, d |-> 1]
  /\ BoughtTenAt100 /\ SoldTenAt120 =>
       /\ db.transactions[2].total = 1200 * CentsPerDollar
       /\ db.transactions[2].profit_loss = 200 * CentsPerDollar
       /\ db.system.cash = 10200 * CentsPerDollar
       /\ db.holdings = << >>
       /\ Cardinality({i \in 1..Len(db.transactions) : db.transactions[i].type = "BUY"}) = 1
       /\ Cardinality({i \in 1..Len(db.transactions) : db.transactions[i].type = "SELL"}) = 1
\* the ten shares bought at 100.00 have been sold at 120.00
C30_Witness ==
  /\ lastOp.op = "sell" /\ lastOp.outcome = "ok"
  /\ BoughtTenAt100 /\ SoldTenAt120
  /\ db.system.cash = 10200 * CentsPerDollar

\* ------------------------------------------------------------------------
\* SpecFill: the clock moved by months and years over months without a
\* snapshot, a ten-thousandth of a share of X bought and sold on the way

NextFill ==
  \/ Within(\E arg \in FillArgs : Buy("X", arg), MaxFillTx, MaxFillHist)
  \/ Within(\E arg \in FillArgs : Sell("X", arg), MaxFillTx, MaxFillHist)
  \/ Within(NextBtn, MaxFillTx, MaxFillHist)
  \/ Within(JumpMonth, MaxFillTx, MaxFillHist)
  \/ Within(JumpYear, MaxFillTx, MaxFillHist)
SpecFill == Init /\ [][NextFill]_vars

\* ------------------------------------------------------------------------
\* Properties of the points of the reconstruction

\* the places in the history of the snapshots recorded in the month
SnapshotsIn(key) ==
  { j \in 1..Len(db.history) : InMonth(db.history[j].date, key) }
\* the boundary date of the month: its last day, currentDate for the month
\* of currentDate
BoundaryDate(key) ==
  IF key = toMonthKey(db.system.currentDate) THEN db.system.currentDate
  ELSE DateUTC(key \div 12, (key % 12) + 1, DaysInMonth(key \div 12, (key % 12) + 1))
\* the replay of the transactions dated up to d
ReplayedTo(d) ==
  replay(sortByDateTime(db.transactions), d,
         [idx |-> 1, shares |-> << >>, cash |-> initialCashOf(db.history)])
\* cash + the sum over the symbols in S of shares * priceAtOrBefore(symbol, d),
\* a symbol without a price adding nothing; in cents and 1/TicksPerShare cent
RECURSIVE CashPlusShares(_, _, _, _)
CashPlusShares(cash, shares, d, S) ==
  IF S = {} THEN cash
  ELSE LET symbol == CHOOSE x \in S : TRUE
           rest == CashPlusShares(cash, shares, d, S \ {symbol})
           price == getPriceAtOrBefore(symbol, d)
           f == rest.frac + (IF price = undefined THEN 0
                             ELSE FracCents(shares[symbol], price))
       IN [cents |-> rest.cents
                       + (IF price = undefined THEN 0 ELSE WholeCents(shares[symbol], price))
                       + (f \div TicksPerShare),
           frac |-> f % TicksPerShare]
\* the value at the boundary date of a month from the replay
ReplayedValue(key) ==
  LET d == BoundaryDate(key)
      r == ReplayedTo(d)
  IN CashPlusShares(r.cash, r.shares, d, DOMAIN r.shares)
\* a value to the nearest cent
ToCent(v) ==
  [cents |-> v.cents + (IF 2 * v.frac >= TicksPerShare THEN 1 ELSE 0), frac |-> 0]
\* the point of a month with a snapshot has the value of a snapshot of the
\* latest date recorded in the month
SnapshotVerbatim(point, key) ==
  \E j \in SnapshotsIn(key) :
    /\ \A k \in SnapshotsIn(key) : db.history[k].date <= db.history[j].date
    /\ point.date = db.history[j].date
    /\ point.value = db.history[j].value

\* C31 as stated: the point of a month with a snapshot has the value of the
\* month's latest-dated snapshot, and the point of a month without one the
\* replayed cash plus the sum over the instruments of the replayed shares
\* times priceAtOrBefore at the month's boundary date.
C31_PointValues ==
  LET out == Filled
      earliest == EarliestMonth
  IN \A i \in 1..Len(out) :
       IF SnapshotsIn(earliest + (i - 1)) # {}
       THEN SnapshotVerbatim(out[i], earliest + (i - 1))
       ELSE out[i].value = ReplayedValue(earliest + (i - 1))
\* C31 amended: the point of a month without a snapshot has that sum rounded
\* to the cent.
C31_PointValuesToCent ==
  LET out == Filled
      earliest == EarliestMonth
  IN \A i \in 1..Len(out) :
       IF SnapshotsIn(earliest + (i - 1)) # {}
       THEN SnapshotVerbatim(out[i], earliest + (i - 1))
       ELSE /\ out[i].date = BoundaryDate(earliest + (i - 1))
            /\ out[i].value = ToCent(ReplayedValue(earliest + (i - 1)))
\* a year jumped over with a ten-thousandth of a share held: the months in
\* between have no snapshot, and the share is worth 1.2 cents at their ends
C31_Witness ==
  /\ lastOp.op = "jumpYear" /\ lastOp.outcome = "ok"
  /\ Held(db, "X")
  /\ SnapshotsIn(EarliestMonth + 1) = {}
  /\ ReplayedValue(EarliestMonth + 1).frac # 0
  /\ Len(Filled) >= 13

\* ------------------------------------------------------------------------
\* SpecCorrupt: computeFilledMonthlyHistory called once on a transaction log
\* read from the store with entries no buy or sell has written

\* a BUY and a SELL as the handlers write them
WellFormedTxs ==
  { [date |-> DateUTC(2000, 1, 10), time |-> "open", type |-> "BUY", symbol |-> "X",
     shares |-> TicksPerShare, price |-> 12000, total |-> 12000],
    [date |-> DateUTC(2000, 2, 7), time |-> "open", type |-> "SELL", symbol |-> "X",
     shares |-> TicksPerShare, price |-> 12000, total |-> 12000] }
\* the BUY without a date, of a kind the replay does not know, with a
\* quantity that is no number, with a total that is no number
CorruptTxs ==
  LET t == [date |-> DateUTC(2000, 1, 10), time |-> "open", type |-> "BUY",
            symbol |-> "X", shares |-> TicksPerShare, price |-> 12000, total |-> 12000]
  IN { [t EXCEPT !.date = NoDate], [t EXCEPT !.type = "DIVIDEND"],
       [t EXCEPT !.shares = NaN], [t EXCEPT !.total = NaN] }
IsCorrupt(t) ==
  \/ t.date = NoDate
  \/ t.type \notin {"BUY", "SELL"}
  \/ t.shares = NaN
  \/ t.total = NaN
CorruptInputs ==
  { [NotRebuilt EXCEPT !.entries = initDefaults.history, !.currentDate = d,
                       !.transactions = log] :
      d \in { DateUTC(2000, 1, 20), DateUTC(2000, 3, 15) },
      log \in UNION { [1..n -> WellFormedTxs \cup CorruptTxs] : n \in 0..MaxCorruptTx } }

InitCorrupt == /\ db = initDefaults
               /\ jumpError = "hidden"
               /\ lastOp = [op |-> "main", outcome |-> "ok", shown |-> "none"]
               /\ procs = [i \in Slots |-> Idle]
               /\ refreshGeneration = 0
               /\ conc = [base |-> initDefaults, ops |-> << >>,
                          unloaded |-> FALSE, started |-> 0,
                   mixed |-> [i \in Slots |-> FALSE]]
               /\ els = rendered
               /\ loader = noneLoaded
               /\ lookup = NoLookup
               /\ rebuilt \in CorruptInputs

\* the call returns the points; the sort of a log with a dated and an undated
\* transaction calls the comparator with the two in an order the engine
\* chooses, and the call throws when the undated one comes first
Rebuild ==
  /\ ~rebuilt.called
  /\ \E threw \in BOOLEAN :
       /\ threw => \E i, j \in 1..Len(rebuilt.transactions) :
                      i # j /\ compareThrows(rebuilt.transactions[i], rebuilt.transactions[j])
       /\ rebuilt' =
            [rebuilt EXCEPT !.called = TRUE,
                            !.threw = threw,
                            !.out = IF threw THEN << >>
                                    ELSE computeFilledMonthlyHistory(
                                           rebuilt.entries, rebuilt.currentDate,
                                           rebuilt.transactions)]
  /\ UNCHANGED <<db, jumpError, lastOp, procs, refreshGeneration, conc, els,
                 loader, lookup>>

NextCorrupt == Rebuild
SpecCorrupt == InitCorrupt /\ [][NextCorrupt]_vars

\* ------------------------------------------------------------------------
\* Properties of the reconstruction of a log with corrupt entries

\* the places of the corrupt entries of the log, and the log without them
CorruptPlaces ==
  { i \in 1..Len(rebuilt.transactions) : IsCorrupt(rebuilt.transactions[i]) }
WithoutCorrupt == SelectSeq(rebuilt.transactions, LAMBDA t : ~IsCorrupt(t))
\* C32: a corrupt transaction does not abort the reconstruction: the call
\* does not throw, every corrupt entry is reported, the points are those of
\* the log without the corrupt entries, and there is one point for each
\* month from the month of the earliest snapshot to the month of currentDate.
C32_CorruptSkippedAndFlagged ==
  rebuilt.called =>
    /\ ~rebuilt.threw
    /\ rebuilt.flagged = CorruptPlaces
    /\ rebuilt.out = computeFilledMonthlyHistory(rebuilt.entries, rebuilt.currentDate,
                                                 WithoutCorrupt)
    /\ Len(rebuilt.out) = toMonthKey(rebuilt.currentDate)
                            - toMonthKey(rebuilt.entries[1].date) + 1

\* ------------------------------------------------------------------------
\* SpecBooks: trades of one SHARE_STEP and of a quantity below it, the clock
\* moved by nextBtn and jumpWeek
MaxBooksTx == 3
MaxBooksHist == 3
BooksBuyArgs == {Shares(3), Shares(TicksPerStep)}
BooksSellArgs == {Shares(TicksPerStep)}
NextBooks ==
  \/ Within(\E arg \in BooksBuyArgs : Buy("X", arg), MaxBooksTx, MaxBooksHist)
  \/ Within(\E arg \in BooksSellArgs : Sell("X", arg), MaxBooksTx, MaxBooksHist)
  \/ Within(NextBtn, MaxBooksTx, MaxBooksHist)
  \/ Within(JumpWeek, MaxBooksTx, MaxBooksHist)
SpecBooks == Init /\ [][NextBooks]_vars

\* sum of the BUY quantities - sum of the SELL quantities of symbol in the
\* first i transactions
RECURSIVE netShares(_, _, _)
netShares(log, symbol, i) ==
  IF i = 0 THEN 0
  ELSE netShares(log, symbol, i - 1)
         + (IF log[i].symbol # symbol THEN 0
            ELSE IF log[i].type = "BUY" THEN log[i].shares ELSE -log[i].shares)
\* C33: after any sequence of completed buys, sells and navigations run one
\* at a time from the initial state, the cash is 10000 - sum of the BUY totals
\* + sum of the SELL totals of the log, and of every instrument the quantity
\* held is sum of the BUY quantities - sum of the SELL quantities, a holding
\* record existing exactly when that difference is not zero.
C33_LedgerIdentities ==
  LET log == db.transactions
  IN /\ db.system.cash = StartCash + netCash(log, Len(log))
     /\ \A symbol \in Symbols :
          LET net == netShares(log, symbol, Len(log))
          IN /\ Held(db, symbol) <=> net # 0
             /\ Held(db, symbol) => db.holdings[symbol].shares = net

\* ------------------------------------------------------------------------
\* SpecMint: trades of whole SHARE_STEPs at prices that are and are not a
\* whole number of cents per SHARE_STEP (X at 100.00, BTC-USD at 40.00), the
\* clock moved by nextBtn and by the jump form to 2009-01-03
MaxMintTx == 3
MaxMintHist == 3
MintSymbols == {"X", "BTC-USD"}
MintBuyArgs == {Shares(TicksPerStep)}
MintSellArgs == {Shares(TicksPerStep), Shares(1000 * TicksPerShare)}
MintJumpInputs == { <<2009, 1, 3>> }
NextMint ==
  \/ Within(\E symbol \in MintSymbols, arg \in MintBuyArgs : Buy(symbol, arg),
            MaxMintTx, MaxMintHist)
  \/ Within(\E symbol \in MintSymbols, arg \in MintSellArgs : Sell(symbol, arg),
            MaxMintTx, MaxMintHist)
  \/ Within(NextBtn, MaxMintTx, MaxMintHist)
  \/ Within(DoJumpForm(MintJumpInputs), MaxMintTx, MaxMintHist)
SpecMint == Init /\ [][NextMint]_vars

\* - sum of the BUY totals + sum of the SELL totals of the transactions of
\* symbol among the first i
RECURSIVE netCashOf(_, _, _)
netCashOf(log, symbol, i) ==
  IF i = 0 THEN 0
  ELSE netCashOf(log, symbol, i - 1)
         + (IF log[i].symbol # symbol THEN 0
            ELSE IF log[i].type = "BUY" THEN -log[i].total ELSE log[i].total)
\* every trade of symbol in the log was made at one price
PriceHeld(log, symbol) ==
  \A i, j \in 1..Len(log) :
    log[i].symbol = symbol /\ log[j].symbol = symbol => log[i].price = log[j].price
\* C34: the buys and sells of an instrument made at one price, starting with
\* none of it held, never leave the cash above what it was before them: the
\* rounding of costs and proceeds to the cent creates no money.
C34_NoMoneyFromRounding ==
  \A symbol \in Symbols :
    PriceHeld(db.transactions, symbol)
      => netCashOf(db.transactions, symbol, Len(db.transactions)) <= 0

\* ------------------------------------------------------------------------
\* Properties of the clock under handlers in flight together (SpecConc)

\* the step is the putSystem(sys) of the trade in flight in slot i
TradeWritesSystem(i) == procs[i].pc = "putHolding" /\ procs'[i].pc = "putSystem"
\* C35: under every interleaving of trade and navigation handlers the stored
\* currentDate never decreases, and the system record a buy or sell writes
\* back leaves currentDate and timeOfDay as a navigation completed in the
\* meantime has stored them.
C35_TradeKeepsClock ==
  [][ /\ db'.system.currentDate >= db.system.currentDate
      /\ \A i \in Slots :
           TradeWritesSystem(i)
             => /\ db'.system.currentDate = db.system.currentDate
                /\ db'.system.timeOfDay = db.system.timeOfDay ]_vars

\* the step is the appendPortfolioHistory of the refresh in slot i
SnapshotWritten(i) ==
  /\ procs[i].pc = "refresh.getRecentTx" /\ refreshGeneration = i
  /\ procs'[i].pc = "idle" /\ ~conc'.unloaded
\* C36: the value of every snapshot refresh writes is computed from one state
\* of the ledger: refresh never adds a cash balance read before a trade's
\* cash write to holdings read after that trade's holding write, under any
\* interleaving of refresh with buy and sell.
C36_SnapshotFromOneState ==
  [][ \A i \in Slots : SnapshotWritten(i) => ~conc.mixed[i] ]_vars

\* the snapshot refresh has just recorded: the entry of the history for the
\* clock state on display
Recorded ==
  LET last == db.history[Len(db.history)]
  IN IF last.date = db.system.currentDate /\ last.time = db.system.timeOfDay
     THEN last.value ELSE NoPoint
\* C37: after a refresh for (currentDate, timeOfDay) the last point of the
\* reconstructed series has the value of the snapshot just recorded for that
\* clock state, whatever other snapshots the month holds, one of the same date
\* and the other phase included.
C37_LastPointIsCurrent ==
  /\ Recorded # NoPoint
  /\ Len(Filled) > 0
  /\ Filled[Len(Filled)].value = Recorded

\* ------------------------------------------------------------------------
\* SpecLoadFail: the price loader with a network that can fail

\* a load at await fetchHistory(symbol): fetch rejects (the network is down)
\* or res.json() rejects (the body is not JSON); fetchHistory has no catch and
\* neither has the body of the load, whose promise is rejected with the
\* statements after the await not run
FetchHistoryRejects(symbol) ==
  /\ loader.bodies[symbol].fetchHistory > 0
  /\ loader' = [loader EXCEPT !.bodies[symbol].fetchHistory = @ - 1]
  /\ UNCHANGED <<db, jumpError, lastOp, procs, refreshGeneration, conc, els,
                 lookup, rebuilt>>

NextLoadFail == \/ \E symbol \in Symbols : LoadPriceSeries(symbol)
                \/ \E symbol \in Symbols : GetPrices(symbol)
                \/ \E symbol \in Symbols : FetchHistory(symbol)
                \/ \E symbol \in Symbols : FetchHistoryRejects(symbol)
                \/ \E symbol \in Symbols : PutPrices(symbol)
SpecLoadFail == Init /\ [][NextLoadFail]_vars

\* C38: priceFetches holds an entry for a symbol only while a load of it is
\* in flight: once the load has settled, by success or by failure, the entry
\* is gone, and the next call of loadPriceSeries starts a new load.
C38_EntryOnlyInFlight ==
  \A symbol \in Symbols : symbol \in loader.priceFetches => Running(symbol) > 0

\* ------------------------------------------------------------------------
\* Properties of the reset (Spec)

\* C39: when the reset button's handler has completed with nothing else in
\* flight the session is in its initial state: the clock at (GAME_START_DATE,
\* open), the cash 10000, no holdings, an empty transaction log and a
\* snapshot history of the one entry (GAME_START_DATE, open, 10000).
C39_ResetRestoresInitial ==
  lastOp.op = "resetBtn"
    => /\ db.system = [currentDate |-> GAME_START_DATE, timeOfDay |-> "open",
                       cash |-> StartCashDollars * CentsPerDollar]
       /\ db.holdings = << >>
       /\ db.transactions = << >>
       /\ db.history = << [date |-> GAME_START_DATE, time |-> "open",
                           value |-> [cents |-> StartCashDollars * CentsPerDollar,
                                      frac |-> 0]] >>
C39_Witness ==
  /\ lastOp.op = "resetBtn" /\ lastOp.outcome = "ok"
  /\ db.system.currentDate = GAME_START_DATE
  /\ Len(db.history) = 1

\* ------------------------------------------------------------------------
\* SpecMonth: the clock moved by nextBtn, jumpWeek and jumpMonth, and by the
\* jump form to the last days of a month: 2000-01-31, 2000-03-31, 2001-01-29
MaxMonthHist == 4
MonthJumpInputs == { <<2000, 1, 31>>, <<2000, 3, 31>>, <<2001, 1, 29>> }
NextMonth ==
  \/ Within(NextBtn, 0, MaxMonthHist)
  \/ Within(JumpWeek, 0, MaxMonthHist)
  \/ Within(JumpMonth, 0, MaxMonthHist)
  \/ Within(DoJumpForm(MonthJumpInputs), 0, MaxMonthHist)
SpecMonth == Init /\ [][NextMonth]_vars

\* C40: the +1 month jump taken on a date before MAX_DATE moves currentDate
\* to a date of the calendar month immediately following that of the date it
\* was taken on, or to MAX_DATE; it skips no month, from the 29th, the 30th
\* and the 31st included.
C40_JumpMonthNextMonth ==
  [][ lastOp'.op = "jumpMonth" /\ db.system.currentDate # MAX_DATE
        => \/ toMonthKey(db'.system.currentDate) = toMonthKey(db.system.currentDate) + 1
           \/ db'.system.currentDate = MAX_DATE ]_vars
====
